---------------------------- MODULE Spec2Model ----------------------------
(***************************************************************************)
(* A model of the heb1025bot family of Telegram bots: the serialized      *)
(* SQLite store (bots/db.py, heb1025bot/storage.py), the user registry    *)
(* and admin-request workflow (bots/aspects/users.py), the autodelete     *)
(* scheduler (bots/aspects/autodelete.py), the send-task queue            *)
(* (bots/aspects/send_tasks.py) and the broadcast confirmation workflow   *)
(* (bots/heb1025/__main__.py, heb1025bot/main.py).                        *)
(*                                                                         *)
(* The module holds several specifications over one set of variables;     *)
(* each one exercises one subsystem and pins the variables of the others. *)
(*   SpecLock       the with_cursor scope, statement by statement         *)
(*   SpecAutoDelete the msgs_to_delete table and the purge job            *)
(*   SpecAdmin      the admin-request workflow                            *)
(*   SpecBan        the registry under the ban workflow                   *)
(*   SpecBroadcast  the broadcast workflow and the send-task job          *)
(***************************************************************************)
EXTENDS Naturals, Integers, Sequences, FiniteSets, TLC

VARIABLES
    store,          \* which storage class serializes access: "SerializedDB" | "Storage"
    lockOwner,      \* thread holding the store lock, or None
    lockCount,      \* RLock recursion level (0 = free)
    scope,          \* per thread: position inside a with_cursor scope
    faults,         \* number of storage failures injected so far
    users,          \* table users: chat_id -> row or NoRow
    admin_requests, \* table admin_requests: set of rows
    admin_request_confirmations,   \* table admin_request_confirmations
    msgs_to_delete, \* table msgs_to_delete: set of rows, key (chat_id, message_id)
    send_tasks,     \* table send_tasks: set of rows, key id
    unconfirmed_texts, \* table unconfirmed_texts: set of rows, key id
    now,            \* the clock read by datetime("now")
    nextMsgId,      \* per chat: the id the messaging API gives the chat's next message
    prompts,        \* messages sent with inline buttons, and whether they still show them
    hnd,            \* the dispatcher thread: the handler it runs and its locals
    sjob,           \* the send-task job: position and locals
    pjob,           \* the purge job: position and locals
    wrk,            \* a second thread running a callback-query handler
    hist            \* history: admin requests resolved and notified, tasks attempted,
                    \* user lists rendered

lockVars == <<store, lockOwner, lockCount, scope, faults>>
dbVars == <<users, admin_requests, admin_request_confirmations, msgs_to_delete,
            send_tasks, unconfirmed_texts>>
envVars == <<now, nextMsgId, prompts>>
procVars == <<hnd, sjob, pjob, wrk, hist>>
vars == <<store, lockOwner, lockCount, scope, faults,
          users, admin_requests, admin_request_confirmations, msgs_to_delete,
          send_tasks, unconfirmed_texts,
          now, nextMsgId, prompts, hnd, sjob, pjob, wrk, hist>>

None == "None"
NoRow == [present |-> FALSE, is_admin |-> FALSE, banned |-> FALSE]

\* Threads of the process: the dispatcher (foreground handlers) and the two
\* repeating jobs.
Threads == {"handler", "purge", "send"}

\* The chats of the model (ids as in the spec's scenarios).
Chats == {100, 200, 300}

(***************************************************************************)
(* Bounds of the model.                                                    *)
(***************************************************************************)
MaxFaults == 2      \* storage failures (cursor, close, commit) injected per run
MaxMsgs == 2        \* messages the bot sends in a run

Max(S) == CHOOSE x \in S : \A y \in S : y <= x

RECURSIVE Sum(_, _)
Sum(f, S) ==
    IF S = {} THEN 0
    ELSE LET x == CHOOSE y \in S : TRUE IN f[x] + Sum(f, S \ {x})

\* The messaging API numbers the messages of a chat 1, 2, ...; the model lets the
\* bot send MaxMsgs messages in all.
MsgsSent == Sum([c \in Chats |-> nextMsgId[c] - 1], Chats)
CanSend == MsgsSent < MaxMsgs
SentTo(c) == [nextMsgId EXCEPT ![c] = @ + 1]

(***************************************************************************)
(* The serialized store: CursorContext / SerializedDB (bots/db.py) and     *)
(* Serializer / Storage (heb1025bot/storage.py).                           *)
(***************************************************************************)
IdleScope == [pc |-> "idle", commit |-> FALSE, exc |-> FALSE]

\* threading.RLock (SerializedDB) lets its owner acquire again;
\* threading.Lock (Storage) does not.
Reentrant == store = "SerializedDB"

\* (an acquire that never waits, for comparison)
CanAcquireOpen(t) == TRUE
\* lock.acquire() returns when the lock is free, or held by the caller of an RLock.
CanAcquire(t) ==
    \/ lockOwner = None
    \/ Reentrant /\ lockOwner = t

InScopePcs == {"cursor", "body", "close", "commit", "release"}
InScope(t) == scope[t].pc \in InScopePcs

\* with_cursor(commit=...): the context object is built; Serializer has no commit flag.
WithCursor(t, commit) ==
    /\ scope[t].pc = "idle"
    /\ store = "Storage" => commit = FALSE
    /\ scope' = [scope EXCEPT ![t] = [pc |-> "acquire", commit |-> commit, exc |-> FALSE]]
    /\ UNCHANGED <<store, lockOwner, lockCount, faults>>
    /\ UNCHANGED <<dbVars, envVars, procVars>>

\* __enter__, first statement: self.lock.acquire()
EnterAcquire(t) ==
    /\ scope[t].pc = "acquire"
    /\ CanAcquire(t)
    /\ lockOwner' = t
    /\ lockCount' = lockCount + 1
    /\ scope' = [scope EXCEPT ![t].pc = "cursor"]
    /\ UNCHANGED <<store, faults>>
    /\ UNCHANGED <<dbVars, envVars, procVars>>

\* __enter__, second statement: self.cursor = self.cursor_getter().  When it
\* raises, the exception leaves __enter__ and __exit__ is never called.
EnterCursor(t) ==
    /\ scope[t].pc = "cursor"
    /\ \/ /\ scope' = [scope EXCEPT ![t].pc = "body"]
          /\ UNCHANGED faults
       \/ /\ faults < MaxFaults
          /\ faults' = faults + 1
          /\ scope' = [scope EXCEPT ![t] = [IdleScope EXCEPT !.exc = TRUE]]
    /\ UNCHANGED <<store, lockOwner, lockCount>>
    /\ UNCHANGED <<dbVars, envVars, procVars>>

\* The body of the with statement ends, by falling off its end or by raising;
\* either way __exit__ is called.
ScopeBody(t) ==
    /\ scope[t].pc = "body"
    /\ \E raised \in BOOLEAN :
          scope' = [scope EXCEPT ![t].pc = "close", ![t].exc = raised]
    /\ UNCHANGED <<store, lockOwner, lockCount, faults>>
    /\ UNCHANGED <<dbVars, envVars, procVars>>

\* __exit__, first statement: self.cursor.close()
ExitClose(t) ==
    /\ scope[t].pc = "close"
    /\ \/ /\ scope' = [scope EXCEPT ![t].pc =
                          IF scope[t].commit THEN "commit" ELSE "release"]
          /\ UNCHANGED faults
       \/ /\ faults < MaxFaults
          /\ faults' = faults + 1
          /\ scope' = [scope EXCEPT ![t] = [IdleScope EXCEPT !.exc = TRUE]]
    /\ UNCHANGED <<store, lockOwner, lockCount>>
    /\ UNCHANGED <<dbVars, envVars, procVars>>

\* __exit__, CursorContext only: if self.commit: self.committer()
ExitCommit(t) ==
    /\ scope[t].pc = "commit"
    /\ \/ /\ scope' = [scope EXCEPT ![t].pc = "release"]
          /\ UNCHANGED faults
       \/ /\ faults < MaxFaults
          /\ faults' = faults + 1
          /\ scope' = [scope EXCEPT ![t] = [IdleScope EXCEPT !.exc = TRUE]]
    /\ UNCHANGED <<store, lockOwner, lockCount>>
    /\ UNCHANGED <<dbVars, envVars, procVars>>

\* __exit__, last statement: self.lock.release()
ExitRelease(t) ==
    /\ scope[t].pc = "release"
    /\ lockCount' = lockCount - 1
    /\ lockOwner' = IF lockCount = 1 THEN None ELSE lockOwner
    /\ scope' = [scope EXCEPT ![t] = [IdleScope EXCEPT !.exc = scope[t].exc]]
    /\ UNCHANGED <<store, faults>>
    /\ UNCHANGED <<dbVars, envVars, procVars>>

(***************************************************************************)
(* Rows and tables.  An INTEGER PRIMARY KEY column that is not given on    *)
(* INSERT gets the largest id in the table plus one (1 in an empty table). *)
(***************************************************************************)
NextRowId(tbl) == IF tbl = {} THEN 1 ELSE Max({r.id : r \in tbl}) + 1

\* The chat ids of a set, as the sequence a loop over the set visits them.  The
\* set is built from rows read in primary-key order and holds small integers;
\* the model visits them in increasing order.
RECURSIVE Ascending(_)
Ascending(S) ==
    IF S = {} THEN <<>>
    ELSE LET x == CHOOSE y \in S : \A z \in S : y <= z
         IN  <<x>> \o Ascending(S \ {x})

\* plural_ru (bots/utils/plural.py)
\* (a plural chosen by the last digit alone, for comparison)
PluralRuByLastDigit(num, form_1, form_234, form_many) ==
    LET rem_10 == num % 10
    IN  IF rem_10 = 1 THEN form_1
        ELSE IF 2 <= rem_10 /\ rem_10 <= 4 THEN form_234
        ELSE form_many
PluralRu(num, form_1, form_234, form_many) ==
    LET rem_10 == num % 10
        rem_100 == num % 100
    IN  IF 10 < rem_100 /\ rem_100 < 20 THEN form_many
        ELSE IF rem_10 = 1 THEN form_1
        ELSE IF 2 <= rem_10 /\ rem_10 <= 4 THEN form_234
        ELSE form_many

\* Message texts: a broadcast text typed by an admin, and the
\* "sent to N users" notification built by the send branch.
Texts == {"Hello"}
Text(body) == [kind |-> "text", body |-> body, n |-> 0]
SentText(n) ==
    [kind |-> "sent",
     body |-> PluralRu(n, "polzovatelyu", "polzovatelyam", "polzovatelyam"),
     n |-> n]

(***************************************************************************)
(* Heb1025UsersStorage (bots/storage/heb1025_users.py) and the same        *)
(* methods of Storage (heb1025bot/storage.py): a users table without a     *)
(* banned column.                                                          *)
(***************************************************************************)
\* INSERT OR REPLACE ... is_admin = (SELECT is_admin FROM users WHERE chat_id=?)
HebAddUser(tbl, chat_id) ==
    [tbl EXCEPT ![chat_id] =
        [present |-> TRUE, is_admin |-> tbl[chat_id].is_admin, banned |-> FALSE]]

\* SELECT chat_id FROM users
HebGetAllChatIds(tbl) == {c \in Chats : tbl[c].present}

\* SELECT chat_id FROM users WHERE is_admin
HebGetAdminChatIds(tbl) == {c \in Chats : tbl[c].present /\ tbl[c].is_admin}

\* SELECT is_admin FROM users WHERE chat_id=?  (False when there is no row)
HebIsAdmin(tbl, chat_id) == tbl[chat_id].present /\ tbl[chat_id].is_admin

\* UPDATE users SET is_admin=? WHERE chat_id=?
HebSetIsAdmin(tbl, chat_id, is_admin) ==
    IF tbl[chat_id].present
    THEN [tbl EXCEPT ![chat_id].is_admin = is_admin]
    ELSE tbl

(***************************************************************************)
(* UsersStorage (bots/aspects/users.py): users with a banned column, admin *)
(* requests and their confirmation prompts.                                *)
(***************************************************************************)
\* add_user: INSERT when the chat id is unknown, else UPDATE of the name columns
AddUser(tbl, chat_id) ==
    IF tbl[chat_id].present THEN tbl
    ELSE [tbl EXCEPT ![chat_id] = [present |-> TRUE, is_admin |-> FALSE, banned |-> FALSE]]

\* SELECT chat_id FROM users WHERE NOT banned
\* (the query without its WHERE clause, for comparison)
GetAllChatIdsUnfiltered(tbl) == {c \in Chats : tbl[c].present}
GetAllChatIds(tbl) == {c \in Chats : tbl[c].present /\ ~tbl[c].banned}

\* (a query that finds no admin, for comparison)
GetNoChatIds(tbl) == {}
\* SELECT chat_id FROM users WHERE NOT banned AND is_admin
GetAdminChatIds(tbl) ==
    {c \in Chats : tbl[c].present /\ ~tbl[c].banned /\ tbl[c].is_admin}

\* SELECT is_admin FROM users WHERE chat_id=? AND NOT banned  (False without a row)
IsAdmin(tbl, chat_id) ==
    tbl[chat_id].present /\ ~tbl[chat_id].banned /\ tbl[chat_id].is_admin

\* (the UPDATE without AND NOT banned, for comparison)
SetIsAdminOfAny(tbl, chat_id, is_admin) ==
    IF tbl[chat_id].present THEN [tbl EXCEPT ![chat_id].is_admin = is_admin] ELSE tbl
\* UPDATE users SET is_admin=? WHERE chat_id=? AND NOT banned
SetIsAdmin(tbl, chat_id, is_admin) ==
    IF tbl[chat_id].present /\ ~tbl[chat_id].banned
    THEN [tbl EXCEPT ![chat_id].is_admin = is_admin]
    ELSE tbl

\* (an is_banned that answers False without a row, for comparison)
IsBannedOpen(tbl, chat_id) == tbl[chat_id].present /\ tbl[chat_id].banned
\* SELECT banned FROM users WHERE chat_id=?  (True without a row)
IsBanned(tbl, chat_id) == IF tbl[chat_id].present THEN tbl[chat_id].banned ELSE TRUE

\* UPDATE users SET banned=? WHERE chat_id=?
SetBanned(tbl, chat_id, banned) ==
    IF tbl[chat_id].present THEN [tbl EXCEPT ![chat_id].banned = banned] ELSE tbl

\* create_admin_request: INSERT INTO admin_requests; the row with its lastrowid.
\* The request text is the mention of the candidate.
NewAdminRequest(tbl, candidate_chat_id) ==
    [id |-> NextRowId(tbl), candidate_chat_id |-> candidate_chat_id,
     request_text |-> candidate_chat_id]

\* (a save that inserts the row of the first prompt only, for comparison)
SaveFirstConfirmation(tbl, request_id, confirmations) ==
    IF Len(confirmations) = 0 THEN tbl
    ELSE tbl \cup {[id |-> NextRowId(tbl), request_id |-> request_id,
                     existing_admin_chat_id |-> confirmations[1][1],
                     message_id |-> confirmations[1][2]]}
\* save_admin_request_confirmations: executemany INSERT, one row per prompt
SaveAdminRequestConfirmations(tbl, request_id, confirmations) ==
    LET base == NextRowId(tbl)
    IN  tbl \cup {[id |-> base + i - 1, request_id |-> request_id,
                    existing_admin_chat_id |-> confirmations[i][1],
                    message_id |-> confirmations[i][2]]
                    : i \in 1..Len(confirmations)}

\* _clear_admin_request, the reads: the request row, or None when fetchone()
\* finds no row (the tuple assignment then raises TypeError), and the
\* (chat id, message id) pairs of the request's confirmation rows
NoRequest == [id |-> 0, candidate_chat_id |-> 0, request_text |-> 0]
SelectRequest(tbl, request_id) ==
    IF \E r \in tbl : r.id = request_id
    THEN CHOOSE r \in tbl : r.id = request_id
    ELSE NoRequest

RECURSIVE ConfirmationsOf(_, _)
ConfirmationsOf(tbl, request_id) ==
    LET rows == {r \in tbl : r.request_id = request_id}
    IN  IF rows = {} THEN <<>>
        ELSE LET r == CHOOSE x \in rows : \A y \in rows : x.id <= y.id
             IN  <<(<<r.existing_admin_chat_id, r.message_id>>)>>
                 \o ConfirmationsOf(tbl \ {r}, request_id)

\* _clear_admin_request, the writes:
\* DELETE FROM admin_request_confirmations WHERE request_id=?
\* DELETE FROM admin_requests WHERE id=?
\* (a clear that leaves the confirmation rows, for comparison)
DeleteConfirmationsNone(tbl, request_id) == tbl
DeleteConfirmations(tbl, request_id) == {r \in tbl : r.request_id # request_id}
DeleteRequest(tbl, request_id) == {r \in tbl : r.id # request_id}

(***************************************************************************)
(* UnconfirmedTextsStorage (bots/storage/unconfirmed_texts.py)             *)
(***************************************************************************)
NoInfo == [id |-> 0, text |-> Text(""), confirmation_message_id |-> 0]

\* save_text: INSERT INTO unconfirmed_texts (text); returns lastrowid
SaveText(tbl, text) ==
    tbl \cup {[id |-> NextRowId(tbl), text |-> text, confirmation_message_id |-> 0]}

\* save_confirmation_message_id: UPDATE ... SET confirmation_message_id=? WHERE id=?
SaveConfirmationMessageId(tbl, text_id, message_id) ==
    {IF r.id = text_id THEN [r EXCEPT !.confirmation_message_id = message_id] ELSE r
        : r \in tbl}

\* load: the row as UnconfirmedText, or None (NoInfo) when there is no row
LoadText(tbl, text_id) ==
    IF \E r \in tbl : r.id = text_id
    THEN CHOOSE r \in tbl : r.id = text_id
    ELSE NoInfo

\* (a delete that removes nothing, for comparison)
DeleteTextKeep(tbl, text_id) == tbl
\* delete: DELETE FROM unconfirmed_texts WHERE id=?
DeleteText(tbl, text_id) == {r \in tbl : r.id # text_id}

(***************************************************************************)
(* SendTasksStorage (bots/aspects/send_tasks.py)                           *)
(***************************************************************************)
\* (a save that inserts a row for the first chat id only, for comparison)
SaveTasksOnce(tbl, order, text) ==
    IF Len(order) = 0 THEN tbl
    ELSE tbl \cup {[id |-> NextRowId(tbl), chat_id |-> order[1], text |-> text]}
\* save: executemany INSERT INTO send_tasks (chat_id, text), one row per chat
\* id in iteration order `order`
SaveTasks(tbl, order, text) ==
    LET base == NextRowId(tbl)
    IN  tbl \cup {[id |-> base + i - 1, chat_id |-> order[i], text |-> text]
                    : i \in 1..Len(order)}

\* The rows of `tbl` in increasing id order
RECURSIVE ById(_)
ById(tbl) ==
    IF tbl = {} THEN <<>>
    ELSE LET r == CHOOSE x \in tbl : \A y \in tbl : x.id <= y.id
         IN  <<r>> \o ById(tbl \ {r})

\* (a load that takes the newest rows, ORDER BY id DESC, for comparison)
LoadTasksNewest(tbl, limit) ==
    LET all == ById(tbl)
        n == Len(all)
    IN  [k \in 1..(IF n <= limit THEN n ELSE limit) |-> all[n + 1 - k]]
\* load: SELECT id, chat_id, text FROM send_tasks ORDER BY id LIMIT ?
LoadTasks(tbl, limit) ==
    LET all == ById(tbl)
    IN  IF Len(all) <= limit THEN all ELSE SubSeq(all, 1, limit)

\* dismiss: executemany DELETE FROM send_tasks WHERE id = ?
DismissTasks(tbl, ids) == {r \in tbl : r.id \notin ids}

(***************************************************************************)
(* AutoDeleteStorage.schedule (bots/aspects/autodelete.py): a plain INSERT *)
(* into a table whose primary key is (chat_id, message_id).  The result is *)
(* the table and whether the INSERT went through; a second row for a key   *)
(* raises sqlite3.IntegrityError and leaves the table as it was.           *)
(***************************************************************************)
HasKey(tbl, chat_id, message_id) ==
    \E r \in tbl : r.chat_id = chat_id /\ r.message_id = message_id

\* Scheduling that supersedes the pending row of the pair (INSERT OR REPLACE).
ScheduleReplace(tbl, chat_id, message_id, ttl) ==
    [ok |-> TRUE,
     tbl |-> {r \in tbl : ~(r.chat_id = chat_id /\ r.message_id = message_id)}
             \cup {[chat_id |-> chat_id, message_id |-> message_id,
                    delete_at |-> now + ttl]}]
\* schedule: INSERT INTO msgs_to_delete ... datetime("now", ttl seconds)
Schedule(tbl, chat_id, message_id, ttl) ==
    IF HasKey(tbl, chat_id, message_id)
    THEN [ok |-> FALSE, tbl |-> tbl]
    ELSE [ok |-> TRUE,
          tbl |-> tbl \cup {[chat_id |-> chat_id, message_id |-> message_id,
                             delete_at |-> now + ttl]}]


(***************************************************************************)
(* The dispatcher thread.  It takes one update at a time and runs its      *)
(* handler to the end before it takes the next one; the repeating jobs run *)
(* on the job queue's thread and interleave with a handler between two of  *)
(* its store operations.  A handler whose store operations touch no table  *)
(* a job reads or deletes from is one step.                                *)
(***************************************************************************)
IdleHnd ==
    [pc |-> "idle", op |-> None, chat |-> 0, id |-> 0, info |-> NoInfo,
     chat_ids |-> {}, created |-> {}, err |-> None]

\* The record left by a handler that has returned (err = None) or raised.
Ended(op, err) ==
    [IdleHnd EXCEPT !.pc = IF err = None THEN "done" ELSE "error",
                    !.op = op, !.err = err]

\* The same for a callback-query handler, with the chat and the id of the query.
EndedQuery(op, u, err) == [Ended(op, err) EXCEPT !.chat = u.chat, !.id = u.id]

\* A handler whose outcome no property reads leaves only its exception, if any.
Returned(err) == IF err = None THEN IdleHnd ELSE Ended(None, err)

HndFree == hnd.pc \in {"idle", "done", "error"}

\* The store lock is free for thread t (no scope of another thread is open).
StoreFree(t) == CanAcquire(t)

ErrOf(r) == IF r.ok THEN None ELSE "IntegrityError"

\* A message sent with inline buttons whose callback data end in `id`.  A press
\* of a button reaches the dispatcher as a callback query; a query pressed while
\* the buttons were shown can be handled after the message was edited, so the
\* dispatcher can get a query for any prompt that was ever sent.
Prompt(chat, message_id, kind, id) ==
    [chat |-> chat, message_id |-> message_id, kind |-> kind, id |-> id,
     buttons |-> TRUE]

\* edit_message_text without reply_markup removes the message's buttons.
EditMessageText(ps, chat, message_id) ==
    {IF p.chat = chat /\ p.message_id = message_id
     THEN [p EXCEPT !.buttons = FALSE] ELSE p : p \in ps}

(***************************************************************************)
(* The heb1025 bot: bots/heb1025/__main__.py on SerializedDB, and its      *)
(* predecessor heb1025bot/main.py on Storage.                              *)
(***************************************************************************)
HEB_DEFAULT_TTL == 2 * 60 * 60
SEND_TASKS_LIMIT == 20

\* start: add_user, then a greeting that is not scheduled for deletion
BStart(c) ==
    /\ HndFree /\ StoreFree("handler")
    /\ users' = HebAddUser(users, c)
    /\ hnd' = Returned(None)
    /\ UNCHANGED <<admin_requests, admin_request_confirmations, msgs_to_delete,
                   send_tasks, unconfirmed_texts>>
    /\ UNCHANGED <<lockVars, envVars, sjob, pjob, wrk, hist>>

\* take_admin: refused when an admin exists, else set_is_admin(chat, True);
\* the reply is scheduled either way
BTakeAdmin(c) ==
    /\ HndFree /\ StoreFree("handler")
    /\ CanSend
    /\ LET r == Schedule(msgs_to_delete, c, nextMsgId[c], HEB_DEFAULT_TTL)
       IN  /\ users' = IF HebGetAdminChatIds(users) # {}
                       THEN users
                       ELSE HebSetIsAdmin(users, c, TRUE)
           /\ msgs_to_delete' = r.tbl
           /\ hnd' = Returned(ErrOf(r))
    /\ nextMsgId' = SentTo(c)
    /\ UNCHANGED <<admin_requests, admin_request_confirmations, send_tasks,
                   unconfirmed_texts>>
    /\ UNCHANGED <<lockVars, now, prompts, sjob, pjob, wrk, hist>>

\* drop_admin: set_is_admin(chat, False) and a scheduled reply
BDropAdmin(c) ==
    /\ HndFree /\ StoreFree("handler")
    /\ CanSend
    /\ LET r == Schedule(msgs_to_delete, c, nextMsgId[c], HEB_DEFAULT_TTL)
       IN  /\ users' = HebSetIsAdmin(users, c, FALSE)
           /\ msgs_to_delete' = r.tbl
           /\ hnd' = Returned(ErrOf(r))
    /\ nextMsgId' = SentTo(c)
    /\ UNCHANGED <<admin_requests, admin_request_confirmations, send_tasks,
                   unconfirmed_texts>>
    /\ UNCHANGED <<lockVars, now, prompts, sjob, pjob, wrk, hist>>

\* on_text: a non-admin gets a scheduled refusal; an admin's text is saved as a
\* draft, the confirmation prompt is sent and scheduled, and its message id is
\* stored in the draft
BOnText(c, body) ==
    /\ HndFree /\ StoreFree("handler")
    /\ CanSend
    /\ LET r == Schedule(msgs_to_delete, c, nextMsgId[c], HEB_DEFAULT_TTL)
           text_id == NextRowId(unconfirmed_texts)
           saved == SaveText(unconfirmed_texts, Text(body))
       IN  IF ~HebIsAdmin(users, c)
           THEN /\ msgs_to_delete' = r.tbl
                /\ hnd' = Returned(ErrOf(r))
                /\ UNCHANGED <<unconfirmed_texts, prompts>>
           ELSE /\ msgs_to_delete' = r.tbl
                /\ unconfirmed_texts' =
                      IF r.ok THEN SaveConfirmationMessageId(saved, text_id, nextMsgId[c])
                      ELSE saved
                /\ prompts' = prompts \cup {Prompt(c, nextMsgId[c], "text", text_id)}
                /\ hnd' = Returned(ErrOf(r))
    /\ nextMsgId' = SentTo(c)
    /\ UNCHANGED <<users, admin_requests, admin_request_confirmations, send_tasks>>
    /\ UNCHANGED <<lockVars, now, sjob, pjob, wrk, hist>>

\* on_callback, 'cancel': load, answer, delete(text_info.id), edit the prompt.
\* load returns None for a missing row and text_info.id raises AttributeError.
\* (callback_type is the 'type' of the payload that took the branch.)
BCancelAs(u, callback_type) ==
    /\ HndFree /\ StoreFree("handler")
    /\ u \in prompts /\ u.kind = "text"
    /\ LET text_info == LoadText(unconfirmed_texts, u.id)
       IN  IF text_info = NoInfo
           THEN /\ hnd' = EndedQuery(callback_type, u, "AttributeError")
                /\ UNCHANGED <<unconfirmed_texts, prompts>>
           ELSE /\ unconfirmed_texts' = DeleteText(unconfirmed_texts, text_info.id)
                /\ prompts' = EditMessageText(prompts, u.chat,
                                              text_info.confirmation_message_id)
                /\ hnd' = EndedQuery(callback_type, u, None)
    /\ UNCHANGED <<users, admin_requests, admin_request_confirmations,
                   msgs_to_delete, send_tasks>>
    /\ UNCHANGED <<lockVars, now, nextMsgId, sjob, pjob, wrk, hist>>

BCancel(u) == BCancelAs(u, "cancel")

\* on_callback, 'send', first part: get_all_chat_ids and load; a missing draft
\* is answered with a scheduled notice and the handler returns
BSendLoad(u) ==
    /\ HndFree /\ StoreFree("handler")
    /\ u \in prompts /\ u.kind = "text"
    /\ LET text_info == LoadText(unconfirmed_texts, u.id)
           r == Schedule(msgs_to_delete, u.chat, nextMsgId[u.chat], HEB_DEFAULT_TTL)
       IN  IF text_info = NoInfo
           THEN /\ CanSend
                /\ msgs_to_delete' = r.tbl
                /\ nextMsgId' = SentTo(u.chat)
                /\ hnd' = EndedQuery("send", u, ErrOf(r))
           ELSE /\ hnd' = [IdleHnd EXCEPT !.pc = "send_save", !.op = "send",
                                          !.chat = u.chat, !.id = u.id,
                                          !.info = text_info,
                                          !.chat_ids = HebGetAllChatIds(users)]
                /\ UNCHANGED <<msgs_to_delete, nextMsgId>>
    /\ UNCHANGED <<users, admin_requests, admin_request_confirmations,
                   send_tasks, unconfirmed_texts>>
    /\ UNCHANGED <<lockVars, now, prompts, sjob, pjob, wrk, hist>>

\* 'send', second part: save(chat_ids, text_info.text)
BSendSaveRecipients ==
    /\ hnd.pc = "send_save" /\ StoreFree("handler")
    /\ send_tasks' = SaveTasks(send_tasks, Ascending(hnd.chat_ids), hnd.info.text)
    /\ hnd' = [hnd EXCEPT !.pc = "send_self", !.created = send_tasks' \ send_tasks]
    /\ UNCHANGED <<users, admin_requests, admin_request_confirmations,
                   msgs_to_delete, unconfirmed_texts>>
    /\ UNCHANGED <<lockVars, envVars, sjob, pjob, wrk, hist>>

\* 'send', third part: save({update.effective_chat.id}, 'sent to N users')
BSendSaveSelf ==
    /\ hnd.pc = "send_self" /\ StoreFree("handler")
    /\ send_tasks' = SaveTasks(send_tasks, <<hnd.chat>>,
                               SentText(Cardinality(hnd.chat_ids)))
    /\ hnd' = [hnd EXCEPT !.pc = "send_delete",
                          !.created = hnd.created \cup (send_tasks' \ send_tasks)]
    /\ UNCHANGED <<users, admin_requests, admin_request_confirmations,
                   msgs_to_delete, unconfirmed_texts>>
    /\ UNCHANGED <<lockVars, envVars, sjob, pjob, wrk, hist>>

\* 'send', last part: delete the draft, answer the query, edit the prompt
BSendFinish ==
    /\ hnd.pc = "send_delete" /\ StoreFree("handler")
    /\ unconfirmed_texts' = DeleteText(unconfirmed_texts, hnd.info.id)
    /\ prompts' = EditMessageText(prompts, hnd.chat, hnd.info.confirmation_message_id)
    /\ hnd' = [hnd EXCEPT !.pc = "done"]
    /\ UNCHANGED <<users, admin_requests, admin_request_confirmations,
                   msgs_to_delete, send_tasks>>
    /\ UNCHANGED <<lockVars, now, nextMsgId, sjob, pjob, wrk, hist>>

(***************************************************************************)
(* The send-task job (send_tasks in both mains).                           *)
(***************************************************************************)
IdleSJob == [pc |-> "idle", tasks |-> <<>>, i |-> 0]

\* The outcomes of bot.send_message: the message, telegram.error.BadRequest, or
\* another TelegramError (Unauthorized when the recipient blocked the bot).
SendOutcomes == {"ok", "BadRequest", "Unauthorized"}

\* except BadRequest: only bots/heb1025/__main__.py has the try block
Catches(outcome) == store = "SerializedDB" /\ outcome = "BadRequest"

TaskIds(tasks) == {tasks[k].id : k \in 1..Len(tasks)}

\* tasks = load(20); a run that finds no task does nothing
JLoad ==
    /\ sjob.pc = "idle" /\ StoreFree("send")
    /\ send_tasks # {}
    /\ sjob' = [pc |-> "send", tasks |-> LoadTasks(send_tasks, SEND_TASKS_LIMIT), i |-> 1]
    /\ UNCHANGED <<lockVars, dbVars, envVars, hnd, pjob, wrk, hist>>

\* One turn of the loop: send_message(task.chat_id, task.text) and schedule
\* the message it returns.  An exception that is not caught ends the run.
JSendTask ==
    /\ sjob.pc = "send" /\ sjob.i <= Len(sjob.tasks) /\ StoreFree("send")
    /\ \E outcome \in SendOutcomes :
          LET task == sjob.tasks[sjob.i]
              r == Schedule(msgs_to_delete, task.chat_id, nextMsgId[task.chat_id], HEB_DEFAULT_TTL)
          IN  IF outcome = "ok"
              THEN /\ CanSend
                   /\ nextMsgId' = SentTo(task.chat_id)
                   /\ msgs_to_delete' = r.tbl
                   /\ sjob' = IF r.ok THEN [sjob EXCEPT !.i = sjob.i + 1] ELSE IdleSJob
              ELSE /\ sjob' = IF Catches(outcome)
                              THEN [sjob EXCEPT !.i = sjob.i + 1]
                              ELSE IdleSJob
                   /\ UNCHANGED <<msgs_to_delete, nextMsgId>>
    /\ UNCHANGED <<users, admin_requests, admin_request_confirmations,
                   send_tasks, unconfirmed_texts>>
    /\ UNCHANGED <<lockVars, now, prompts, hnd, pjob, wrk>>

JSend == JSendTask /\ UNCHANGED hist

\* dismiss(task.task_id for task in tasks)
JDismiss ==
    /\ sjob.pc = "send" /\ sjob.i > Len(sjob.tasks) /\ StoreFree("send")
    /\ send_tasks' = DismissTasks(send_tasks, TaskIds(sjob.tasks))
    /\ sjob' = IdleSJob
    /\ UNCHANGED <<users, admin_requests, admin_request_confirmations,
                   msgs_to_delete, unconfirmed_texts>>
    /\ UNCHANGED <<lockVars, envVars, hnd, pjob, wrk, hist>>

(***************************************************************************)
(* The autodelete scheduler (bots/aspects/autodelete.py): the storage      *)
(* methods and the purge job remove_scheduled.                             *)
(***************************************************************************)
PR_DEFAULT_TTL == 10 * 60
ADMIN_MSG_TTL == 47 * 60 * 60
PURGE_LIMIT == 25

\* The messages the scheduler is asked about, as (chat_id, message_id), the
\* ttl arguments of schedule, and the step of the clock.
Msgs == {<<100, 1>>, <<100, 2>>, <<200, 1>>}
Ttls == {PR_DEFAULT_TTL, ADMIN_MSG_TTL}
ClockStep == 10 * 60
MaxTicks == 2

KeyOf(r) == <<r.chat_id, r.message_id>>

\* (a get_scheduled without the WHERE clause, for comparison)
DueOrNot(tbl) == {KeyOf(r) : r \in tbl}
\* get_scheduled: SELECT ... WHERE delete_at <= datetime("now") LIMIT ?
\* The statement has no ORDER BY: any `limit` of the due rows can come back.
Due(tbl) == {KeyOf(r) : r \in {x \in tbl : x.delete_at <= now}}
\* The subsets of S that have k elements (k <= Cardinality(S))
RECURSIVE Batches(_, _)
Batches(S, k) ==
    IF k = 0 THEN {{}}
    ELSE IF Cardinality(S) = k THEN {S}
    ELSE LET x == CHOOSE y \in S : TRUE
         IN  Batches(S \ {x}, k) \cup {b \cup {x} : b \in Batches(S \ {x}, k - 1)}

GetScheduled(tbl, limit) ==
    IF Cardinality(Due(tbl)) <= limit
    THEN {Due(tbl)}
    ELSE Batches(Due(tbl), limit)

\* (a forget that deletes no row, for comparison)
ForgetNone(tbl, msgs) == tbl
\* (a forget that deletes every row that is due, for comparison)
ForgetDue(tbl, msgs) == {r \in tbl : r.delete_at > now}
\* forget: executemany DELETE ... WHERE chat_id=? AND message_id=?
Forget(tbl, msgs) == {r \in tbl : KeyOf(r) \notin msgs}

\* The purge job: the batch it loaded, the messages of the batch it has not
\* yet passed to delete_message, and the outcome of its last delete_message.
IdlePJob == [pc |-> "idle", msgs |-> {}, todo |-> {}, outcome |-> None]

\* The outcomes of bot.delete_message: done, BadRequest with one of the two
\* expected messages, or any other error.
DeleteOutcomes == {"ok", "Message to delete not found", "Message can't be deleted", "other"}
ExpectedErrors == {"Message to delete not found", "Message can't be deleted"}

\* except BadRequest: the two messages are passed over in bots/; the purge of
\* heb1025bot/main.py passes over 'Message to delete not found' only.
Swallowed(outcome) ==
    \/ outcome = "ok"
    \/ IF store = "SerializedDB"
       THEN outcome \in ExpectedErrors
       ELSE outcome = "Message to delete not found"

\* A handler passes a message to schedule(msg, ttl)
ADSchedule(msg, ttl) ==
    /\ HndFree /\ StoreFree("handler")
    /\ LET r == Schedule(msgs_to_delete, msg[1], msg[2], ttl)
       IN  /\ msgs_to_delete' = r.tbl
           /\ hnd' = [Ended("schedule", ErrOf(r)) EXCEPT !.chat = msg[1], !.id = msg[2]]
    /\ UNCHANGED <<users, admin_requests, admin_request_confirmations,
                   send_tasks, unconfirmed_texts>>
    /\ UNCHANGED <<lockVars, envVars, sjob, pjob, wrk, hist>>

\* Time passes.
Tick ==
    /\ now < MaxTicks * ClockStep
    /\ now' = now + ClockStep
    /\ UNCHANGED <<lockVars, dbVars, nextMsgId, prompts, procVars>>

\* remove_scheduled: msgs = get_scheduled(25)
PLoad ==
    /\ pjob.pc = "idle" /\ StoreFree("purge")
    /\ \E batch \in GetScheduled(msgs_to_delete, PURGE_LIMIT) :
          pjob' = [pc |-> "delete", msgs |-> batch, todo |-> batch, outcome |-> None]
    /\ UNCHANGED <<lockVars, dbVars, envVars, hnd, sjob, wrk, hist>>

\* One turn of the loop: bot.delete_message; an error that is not one of the
\* two expected ones is raised again and ends the run before forget
PDeleteWith(msg, outcome) ==
    /\ pjob.pc = "delete" /\ msg \in pjob.todo
    /\ pjob' = IF Swallowed(outcome)
               THEN [pjob EXCEPT !.todo = pjob.todo \ {msg}, !.outcome = outcome]
               ELSE [IdlePJob EXCEPT !.outcome = outcome]
    /\ UNCHANGED <<lockVars, dbVars, envVars, hnd, sjob, wrk, hist>>

PDelete == \E msg \in pjob.todo, outcome \in DeleteOutcomes : PDeleteWith(msg, outcome)

\* forget(msgs)
PForget ==
    /\ pjob.pc = "delete" /\ pjob.todo = {} /\ StoreFree("purge")
    /\ msgs_to_delete' = Forget(msgs_to_delete, pjob.msgs)
    /\ pjob' = IdlePJob
    /\ UNCHANGED <<users, admin_requests, admin_request_confirmations,
                   send_tasks, unconfirmed_texts>>
    /\ UNCHANGED <<lockVars, envVars, hnd, sjob, wrk, hist>>


(***************************************************************************)
(* UsersBehavior (bots/aspects/users.py), installed by the pr1303 bot      *)
(* (bots/pr1303/__main__.py) on a SerializedDB.                            *)
(*                                                                         *)
(* The dispatcher runs one handler at a time.  The resolution of an admin  *)
(* request is modelled on two threads, the dispatcher and one worker, so   *)
(* that two runs of on_callback can overlap: each run goes through its     *)
(* with_cursor scope statement by statement and then through its API       *)
(* calls.  The other handlers run on the dispatcher when no resolution is  *)
(* under way.                                                              *)
(***************************************************************************)
MaxAdminMsgs == 4   \* messages the bot sends in a run of the admin workflow
MaxBanPrompts == 2  \* ban / unban confirmation prompts the bot sends in a run

Resolvers == {"handler", "worker"}
ResolutionTypes == {"accept_admin_request", "reject_admin_request"}

IdleRes ==
    [pc |-> "idle", op |-> None, chat |-> 0, id |-> 0, request |-> NoRequest,
     confirmations |-> <<>>, i |-> 0, serial |-> 0, err |-> None]

R(t) == IF t = "handler" THEN hnd ELSE wrk
SetR(t, v) ==
    IF t = "handler" THEN hnd' = v /\ wrk' = wrk ELSE wrk' = v /\ hnd' = hnd
ResFree(t) == R(t).pc \in {"idle", "done", "error"}
DispatcherFree == ResFree("handler") /\ ResFree("worker") /\ lockOwner = None
CanSendAdmin(k) == MsgsSent + k <= MaxAdminMsgs

\* The history of the requests: the number of requests created, the number of
\* each request row that is in the table, and in order of time the requests
\* whose rows a resolution deleted and the requests whose candidate was notified;
\* and the ids of the send tasks in the order bot.send_message was called for them.
NoHist == [serial |-> 0, live |-> {}, won |-> <<>>, notes |-> <<>>, attempts |-> <<>>]
SerialOf(request_id) == (CHOOSE l \in hist.live : l[1] = request_id)[2]
Count(seq, x) == Cardinality({k \in 1..Len(seq) : seq[k] = x})

\* schedule(msg, ttl) for the messages of `items` (chat id, message id, ttl) in turn
RECURSIVE ScheduleAll(_, _)
ScheduleAll(tbl, items) ==
    IF Len(items) = 0 THEN [ok |-> TRUE, tbl |-> tbl]
    ELSE LET r == Schedule(tbl, items[1][1], items[1][2], items[1][3])
         IN  IF r.ok THEN ScheduleAll(r.tbl, Tail(items)) ELSE r

\* schedule_by_ids(msg): the variant of schedule for a (chat id, message id)
\* pair of a message edited in place; a pair that is pending is rescheduled.
ScheduleByIds(tbl, chat_id, message_id) ==
    ScheduleReplace(tbl, chat_id, message_id, PR_DEFAULT_TTL)

\* A handler's reply to chat c, scheduled with ttl; `rec` is the record the
\* handler leaves when it returns
ReplyAs(c, ttl, rec) ==
    LET r == Schedule(msgs_to_delete, c, nextMsgId[c], ttl)
    IN  /\ CanSendAdmin(1)
        /\ msgs_to_delete' = r.tbl
        /\ nextMsgId' = SentTo(c)
        /\ hnd' = [rec EXCEPT !.pc = IF r.ok THEN "idle" ELSE "error",
                              !.err = ErrOf(r)]

Reply(c, ttl) == ReplyAs(c, ttl, IdleRes)

\* start (bots/pr1303/__main__.py): add_user and a greeting that is not scheduled
UStart(c) ==
    /\ DispatcherFree
    /\ users' = AddUser(users, c)
    /\ hnd' = IdleRes
    /\ UNCHANGED <<admin_requests, admin_request_confirmations, msgs_to_delete,
                   send_tasks, unconfirmed_texts>>
    /\ UNCHANGED <<lockVars, envVars, sjob, pjob, wrk, hist>>

\* take_admin
UTakeAdminAs(c, rec) ==
    /\ DispatcherFree
    /\ LET existing_admins == GetAdminChatIds(users)
           order == Ascending(existing_admins)
           request == NewAdminRequest(admin_requests, c)
           confirmation_msgs == [i \in 1..Len(order) |-> <<order[i], nextMsgId[order[i]]>>]
           items == [i \in 1..Len(order) |-> <<order[i], nextMsgId[order[i]], ADMIN_MSG_TTL>>]
                    \o << <<c, nextMsgId[c], PR_DEFAULT_TTL>> >>
           r == ScheduleAll(msgs_to_delete, items)
       IN  IF IsBanned(users, c)
           THEN /\ ReplyAs(c, PR_DEFAULT_TTL, rec)
                /\ UNCHANGED <<users, admin_requests, admin_request_confirmations,
                               prompts, hist>>
           ELSE IF existing_admins = {}
           THEN /\ users' = SetIsAdmin(users, c, TRUE)
                /\ ReplyAs(c, ADMIN_MSG_TTL, rec)
                /\ UNCHANGED <<admin_requests, admin_request_confirmations, prompts, hist>>
           ELSE IF c \in existing_admins
           THEN /\ ReplyAs(c, PR_DEFAULT_TTL, rec)
                /\ UNCHANGED <<users, admin_requests, admin_request_confirmations,
                               prompts, hist>>
           ELSE /\ CanSendAdmin(Len(order) + 1)
                /\ admin_requests' = admin_requests \cup {request}
                /\ admin_request_confirmations' =
                      SaveAdminRequestConfirmations(admin_request_confirmations,
                                                    request.id, confirmation_msgs)
                /\ msgs_to_delete' = r.tbl
                /\ nextMsgId' = [ch \in Chats |->
                                    IF ch \in existing_admins \cup {c}
                                    THEN nextMsgId[ch] + 1 ELSE nextMsgId[ch]]
                /\ prompts' = prompts \cup
                      {Prompt(m[1], m[2], "request", request.id)
                          : m \in {confirmation_msgs[i] : i \in 1..Len(order)}}
                /\ hist' = [hist EXCEPT !.serial = hist.serial + 1,
                                        !.live = hist.live \cup {<<request.id, hist.serial + 1>>}]
                /\ hnd' = rec
                /\ UNCHANGED users
    /\ UNCHANGED <<send_tasks, unconfirmed_texts>>
    /\ UNCHANGED <<lockVars, now, sjob, pjob, wrk>>

UTakeAdmin(c) == UTakeAdminAs(c, IdleRes)

\* drop_admin; `h` is the history after the handler
UDropAdminAs(c, h) ==
    /\ DispatcherFree
    /\ users' = SetIsAdmin(users, c, FALSE)
    /\ Reply(c, PR_DEFAULT_TTL)
    /\ hist' = h
    /\ UNCHANGED <<admin_requests, admin_request_confirmations, send_tasks,
                   unconfirmed_texts>>
    /\ UNCHANGED <<lockVars, now, prompts, sjob, pjob, wrk>>

UDropAdmin(c) == UDropAdminAs(c, hist)

\* ban_user / unban_user with the number of `target` in the list the command
\* names: a non-admin is refused, an admin gets the confirmation prompt.  (A
\* missing or bad number gets a scheduled reply like the refusal.)
UBanUser(c, kind, target) ==
    /\ DispatcherFree
    /\ kind \in {"ban", "unban"}
    /\ IsAdmin(users, c) =>
          IF kind = "ban" THEN target \in GetAllChatIds(users)
          ELSE users[target].present /\ users[target].banned
    /\ Reply(c, PR_DEFAULT_TTL)
    /\ IsAdmin(users, c) =>
          Cardinality({p \in prompts : p.kind \in {"ban", "unban"}}) < MaxBanPrompts
    /\ prompts' = IF IsAdmin(users, c)
                  THEN prompts \cup {Prompt(c, nextMsgId[c], kind, target)}
                  ELSE prompts
    /\ UNCHANGED <<users, admin_requests, admin_request_confirmations, send_tasks,
                   unconfirmed_texts>>
    /\ UNCHANGED <<lockVars, now, sjob, pjob, wrk, hist>>

\* on_callback, 'ban' / 'unban' / 'ban_cancel' / 'unban_cancel': a button of
\* prompt p is pressed; the cancel button only edits the prompt
UBanCallback(p, cancel) ==
    /\ DispatcherFree
    /\ p \in prompts /\ p.kind \in {"ban", "unban"}
    /\ users' = IF cancel THEN users ELSE SetBanned(users, p.id, p.kind = "ban")
    /\ prompts' = EditMessageText(prompts, p.chat, p.message_id)
    /\ hnd' = IdleRes
    /\ UNCHANGED <<admin_requests, admin_request_confirmations, msgs_to_delete,
                   send_tasks, unconfirmed_texts>>
    /\ UNCHANGED <<lockVars, now, nextMsgId, sjob, pjob, wrk, hist>>

\* on_callback, 'accept_admin_request' / 'reject_admin_request': thread t takes
\* the query of a button of prompt p and enters the with_cursor scope of
\* accept_admin_request / reject_admin_request (lock.acquire())
RBegin(t, p, type) ==
    /\ ResFree(t)
    /\ p \in prompts /\ p.kind = "request"
    /\ type \in ResolutionTypes
    /\ CanAcquire(t)
    /\ lockOwner' = t
    /\ lockCount' = lockCount + 1
    /\ SetR(t, [IdleRes EXCEPT !.pc = "select", !.op = type, !.chat = p.chat, !.id = p.id])
    /\ UNCHANGED <<store, scope, faults, dbVars, envVars, sjob, pjob, hist>>

\* _clear_admin_request: the two SELECTs; without a request row the tuple
\* assignment raises TypeError and the scope is left
RSelect(t) ==
    /\ R(t).pc = "select"
    /\ LET request == SelectRequest(admin_requests, R(t).id)
       IN  IF request = NoRequest
           THEN SetR(t, [R(t) EXCEPT !.pc = "release", !.err = "TypeError"])
           ELSE SetR(t, [R(t) EXCEPT
                    !.pc = "delete",
                    !.request = request,
                    !.confirmations = ConfirmationsOf(admin_request_confirmations, R(t).id),
                    !.serial = SerialOf(R(t).id)])
    /\ UNCHANGED <<lockVars, dbVars, envVars, sjob, pjob, hist>>

\* _clear_admin_request: the two DELETEs; accept_admin_request then sets the
\* candidate's is_admin in the same scope
RDelete(t) ==
    /\ R(t).pc = "delete"
    /\ admin_request_confirmations' =
          DeleteConfirmations(admin_request_confirmations, R(t).id)
    /\ admin_requests' = DeleteRequest(admin_requests, R(t).id)
    /\ users' = IF R(t).op = "accept_admin_request"
                THEN SetIsAdmin(users, R(t).request.candidate_chat_id, TRUE)
                ELSE users
    /\ hist' = [hist EXCEPT !.won = Append(hist.won, R(t).serial),
                            !.live = {l \in hist.live : l[1] \notin
                                        {r.id : r \in admin_requests} \ {r.id : r \in admin_requests'}}]
    /\ SetR(t, [R(t) EXCEPT !.pc = "release"])
    /\ UNCHANGED <<msgs_to_delete, send_tasks, unconfirmed_texts>>
    /\ UNCHANGED <<lockVars, envVars, sjob, pjob>>

\* CursorContext.__exit__: close, commit, lock.release(); an exception of the
\* body goes on to the caller of on_callback
RRelease(t) ==
    /\ R(t).pc = "release"
    /\ lockOwner' = IF lockCount = 1 THEN None ELSE lockOwner
    /\ lockCount' = lockCount - 1
    /\ SetR(t, [R(t) EXCEPT !.pc = IF R(t).err = None THEN "notify" ELSE "error"])
    /\ UNCHANGED <<store, scope, faults, dbVars, envVars, sjob, pjob, hist>>

\* The candidate is told the outcome and the message is scheduled
RNotify(t) ==
    /\ R(t).pc = "notify"
    /\ CanSendAdmin(1)
    /\ LET candidate == R(t).request.candidate_chat_id
           ttl == IF R(t).op = "accept_admin_request" THEN ADMIN_MSG_TTL ELSE PR_DEFAULT_TTL
           r == Schedule(msgs_to_delete, candidate, nextMsgId[candidate], ttl)
       IN  /\ msgs_to_delete' = r.tbl
           /\ nextMsgId' = SentTo(candidate)
           /\ SetR(t, IF ~r.ok THEN [R(t) EXCEPT !.pc = "error", !.err = ErrOf(r)]
                      ELSE IF Len(R(t).confirmations) = 0 THEN [R(t) EXCEPT !.pc = "done"]
                      ELSE [R(t) EXCEPT !.pc = "edit", !.i = 1])
    /\ hist' = [hist EXCEPT !.notes = Append(hist.notes, R(t).serial)]
    /\ UNCHANGED <<users, admin_requests, admin_request_confirmations, send_tasks,
                   unconfirmed_texts>>
    /\ UNCHANGED <<lockVars, now, prompts, sjob, pjob>>

\* One turn of the loop over the confirmations: edit_message_text, schedule_by_ids
REdit(t) ==
    /\ R(t).pc = "edit"
    /\ LET msg == R(t).confirmations[R(t).i]
           r == ScheduleByIds(msgs_to_delete, msg[1], msg[2])
       IN  /\ prompts' = EditMessageText(prompts, msg[1], msg[2])
           /\ msgs_to_delete' = r.tbl
           /\ SetR(t, IF ~r.ok THEN [R(t) EXCEPT !.pc = "error", !.err = ErrOf(r)]
                      ELSE IF R(t).i = Len(R(t).confirmations) THEN [R(t) EXCEPT !.pc = "done"]
                      ELSE [R(t) EXCEPT !.i = R(t).i + 1])
    /\ UNCHANGED <<users, admin_requests, admin_request_confirmations, send_tasks,
                   unconfirmed_texts>>
    /\ UNCHANGED <<lockVars, now, nextMsgId, sjob, pjob, hist>>

InitLockPart ==
    /\ lockOwner = None
    /\ lockCount = 0
    /\ scope = [t \in Threads |-> IdleScope]
    /\ faults = 0

InitRest ==
    /\ admin_requests = {}
    /\ admin_request_confirmations = {}
    /\ msgs_to_delete = {}
    /\ send_tasks = {}
    /\ unconfirmed_texts = {}
    /\ now = 0
    /\ nextMsgId = [c \in Chats |-> 1]
    /\ prompts = {}
    /\ hnd = IdleHnd
    /\ sjob = IdleSJob
    /\ pjob = IdlePJob
    /\ wrk = IdleHnd
    /\ hist = NoHist

InitLock ==
    /\ store \in {"SerializedDB", "Storage"}
    /\ users = [c \in Chats |-> NoRow]
    /\ InitLockPart
    /\ InitRest

NextLock ==
    \/ \E t \in Threads, commit \in BOOLEAN : WithCursor(t, commit)
    \/ \E t \in Threads : EnterAcquire(t)
    \/ \E t \in Threads : EnterCursor(t)
    \/ \E t \in Threads : ScopeBody(t)
    \/ \E t \in Threads : ExitClose(t)
    \/ \E t \in Threads : ExitCommit(t)
    \/ \E t \in Threads : ExitRelease(t)

SpecLock == InitLock /\ [][NextLock]_vars

(***************************************************************************)
(* Handlers and jobs as sequences of storage calls and messaging calls.    *)
(* A handler is any sequence of the two (ping replies first and schedules  *)
(* after, start stores first and replies after); a job run is one storage  *)
(* read (get_scheduled, load), the messaging calls of its loop             *)
(* (delete_message, send_message) and one storage write (forget, dismiss). *)
(* Every storage call is one with_cursor scope, run statement by statement.*)
(***************************************************************************)
Pos(t) ==
    CASE t = "handler" -> hnd.pc
      [] t = "purge" -> pjob.pc
      [] t = "send" -> sjob.pc

SetPos(t, pos) ==
    /\ hnd' = IF t = "handler" THEN [hnd EXCEPT !.pc = pos] ELSE hnd
    /\ pjob' = IF t = "purge" THEN [pjob EXCEPT !.pc = pos] ELSE pjob
    /\ sjob' = IF t = "send" THEN [sjob EXCEPT !.pc = pos] ELSE sjob
    /\ UNCHANGED <<wrk, hist>>

IsJob(t) == t \in {"purge", "send"}

\* A storage method is called: `with self.db.with_cursor(commit=...) as c:`.
\* The first storage call of a job run reads (commit=False), its last one
\* deletes the batch (commit=True).  The methods of Storage commit in the
\* body of the with block; its Serializer has no commit flag.
TStore(t, commit) ==
    /\ scope[t].pc = "idle"
    /\ IF IsJob(t)
       THEN \/ Pos(t) = "idle" /\ ~commit
            \/ Pos(t) = "after" /\ commit = (store = "SerializedDB")
       ELSE Pos(t) = "idle"
    /\ store = "Storage" => commit = FALSE
    /\ scope' = [scope EXCEPT ![t] = [pc |-> "acquire", commit |-> commit, exc |-> FALSE]]
    /\ SetPos(t, IF Pos(t) = "after" THEN "store_last" ELSE "store")
    /\ UNCHANGED <<store, lockOwner, lockCount, faults>>
    /\ UNCHANGED <<dbVars, envVars>>

\* The storage method returns, or the exception that left its scope leaves the
\* handler or the job run as well.
TStoreDone(t) ==
    /\ Pos(t) \in {"store", "store_last"}
    /\ scope[t].pc = "idle"
    /\ SetPos(t, IF IsJob(t) /\ Pos(t) = "store" /\ ~scope[t].exc THEN "loaded" ELSE "idle")
    /\ UNCHANGED <<lockVars, dbVars, envVars>>

\* A call of the messaging API begins: reply_text, send_message,
\* edit_message_text, delete_message, callback_query.answer.
TCall(t) ==
    /\ scope[t].pc = "idle"
    /\ Pos(t) = IF IsJob(t) THEN "loaded" ELSE "idle"
    /\ SetPos(t, "call")
    /\ UNCHANGED <<lockVars, dbVars, envVars>>

\* The call returns, or raises and ends the handler or the run.
TCallEnd(t) ==
    /\ Pos(t) = "call"
    /\ \E raised \in BOOLEAN :
          SetPos(t, IF IsJob(t) /\ ~raised THEN "after" ELSE "idle")
    /\ UNCHANGED <<lockVars, dbVars, envVars>>

\* Storage.schedule_message_to_delete is called, by a handler or by the send
\* job for the message it has sent: the INSERT in a with block
TSchedule(t) ==
    /\ store = "Storage"
    /\ scope[t].pc = "idle"
    /\ \/ t = "handler" /\ Pos(t) = "idle"
       \/ t = "send" /\ Pos(t) = "after"
    /\ scope' = [scope EXCEPT ![t] = [pc |-> "acquire", commit |-> FALSE, exc |-> FALSE]]
    /\ SetPos(t, "schedule")
    /\ UNCHANGED <<store, lockOwner, lockCount, faults>>
    /\ UNCHANGED <<dbVars, envVars>>

\* The with block of schedule_message_to_delete is left; the statement after
\* it is self.sq_conn.commit()
TScheduleDone(t) ==
    /\ Pos(t) = "schedule"
    /\ scope[t].pc = "idle"
    /\ SetPos(t, IF scope[t].exc THEN "idle" ELSE "commit_after")
    /\ UNCHANGED <<lockVars, dbVars, envVars>>

\* self.sq_conn.commit(), after the with block
TCommitAfter(t) ==
    /\ Pos(t) = "commit_after"
    /\ SetPos(t, IF IsJob(t) THEN "after" ELSE "idle")
    /\ UNCHANGED <<lockVars, dbVars, envVars>>

NextCalls ==
    \/ \E t \in Threads, commit \in BOOLEAN : TStore(t, commit)
    \/ \E t \in Threads : EnterAcquire(t)
    \/ \E t \in Threads : EnterCursor(t)
    \/ \E t \in Threads : ScopeBody(t)
    \/ \E t \in Threads : ExitClose(t)
    \/ \E t \in Threads : ExitCommit(t)
    \/ \E t \in Threads : ExitRelease(t)
    \/ \E t \in Threads : TStoreDone(t)
    \/ \E t \in Threads : TCall(t)
    \/ \E t \in Threads : TCallEnd(t)
    \/ \E t \in Threads : TSchedule(t)
    \/ \E t \in Threads : TScheduleDone(t)
    \/ \E t \in Threads : TCommitAfter(t)

SpecCalls == InitLock /\ [][NextCalls]_vars

\* The bot starts on the database file its last run left (CREATE TABLE IF NOT
\* EXISTS): any users table the heb1025 handlers can produce, which holds at
\* most one admin, and no pending draft, task or deletion.
HebUserRow(is_admin) == [present |-> TRUE, is_admin |-> is_admin, banned |-> FALSE]
HebUsersTables ==
    {t \in [Chats -> {NoRow, HebUserRow(FALSE), HebUserRow(TRUE)}] :
        Cardinality(HebGetAdminChatIds(t)) <= 1}

InitBroadcast ==
    /\ store \in {"SerializedDB", "Storage"}
    /\ users \in HebUsersTables
    /\ InitLockPart
    /\ InitRest

NextBroadcast ==
    \/ \E c \in Chats : BStart(c)
    \/ \E c \in Chats : BTakeAdmin(c)
    \/ \E c \in Chats : BDropAdmin(c)
    \/ \E c \in Chats, body \in Texts : BOnText(c, body)
    \/ \E u \in prompts : BCancel(u)
    \/ \E u \in prompts : BSendLoad(u)
    \/ BSendSaveRecipients
    \/ BSendSaveSelf
    \/ BSendFinish
    \/ JLoad
    \/ JSend
    \/ JDismiss

SpecBroadcast == InitBroadcast /\ [][NextBroadcast]_vars

InitAutoDelete ==
    /\ store \in {"SerializedDB", "Storage"}
    /\ users = [c \in Chats |-> NoRow]
    /\ InitLockPart
    /\ InitRest

NextAutoDelete ==
    \/ \E msg \in Msgs, ttl \in Ttls : ADSchedule(msg, ttl)
    \/ Tick
    \/ PLoad
    \/ PDelete
    \/ PForget

SpecAutoDelete == InitAutoDelete /\ [][NextAutoDelete]_vars

(***************************************************************************)
(* The users tables with all their columns.  A row is the record of its    *)
(* columns; start_time is the clock at the INSERT (datetime("now")).       *)
(***************************************************************************)
Profiles ==
    {[first_name |-> "Ann", last_name |-> "Lee", username |-> "ann"],
     [first_name |-> "Anna", last_name |-> "Li", username |-> "anna_li"]}

NoUser ==
    [present |-> FALSE, first_name |-> None, last_name |-> None, username |-> None,
     start_time |-> 0, is_admin |-> FALSE, banned |-> FALSE]

UserRow(p, start_time, is_admin, banned) ==
    [present |-> TRUE, first_name |-> p.first_name, last_name |-> p.last_name,
     username |-> p.username, start_time |-> start_time, is_admin |-> is_admin,
     banned |-> banned]

\* UsersStorage.add_user: SELECT chat_id; INSERT (start_time = datetime("now"),
\* is_admin and banned by DEFAULT 0) when there is no row, else UPDATE of
\* first_name, last_name, username
AddUserRow(tbl, chat_id, p) ==
    IF tbl[chat_id].present
    THEN [tbl EXCEPT ![chat_id].first_name = p.first_name,
                     ![chat_id].last_name = p.last_name,
                     ![chat_id].username = p.username]
    ELSE [tbl EXCEPT ![chat_id] = UserRow(p, now, FALSE, FALSE)]

\* Heb1025UsersStorage.add_user and Storage.add_user: INSERT OR REPLACE of the
\* whole row with start_time = datetime("now") and is_admin = (SELECT is_admin
\* FROM users WHERE chat_id=?), which is NULL when there was no row
HebAddUserRow(tbl, chat_id, p) ==
    [tbl EXCEPT ![chat_id] =
        UserRow(p, now, tbl[chat_id].present /\ tbl[chat_id].is_admin, FALSE)]

\* The registry a handler works on: its storage call and the chat id it is for.
Called(op, chat_id) == [Ended(op, None) EXCEPT !.chat = chat_id]

RegChats == {100, 200}

\* start(): users_storage.add_user(user.id, first_name, last_name, username)
HAddUser(c, p) ==
    /\ StoreFree("handler")
    /\ users' = HebAddUserRow(users, c, p)
    /\ hnd' = Called("add_user", c)
    /\ UNCHANGED <<admin_requests, admin_request_confirmations, msgs_to_delete,
                   send_tasks, unconfirmed_texts>>
    /\ UNCHANGED <<lockVars, envVars, sjob, pjob, wrk, hist>>

\* take_admin() / drop_admin(): users_storage.set_is_admin(chat_id, is_admin)
HSetIsAdmin(c, is_admin) ==
    /\ StoreFree("handler")
    /\ users' = HebSetIsAdmin(users, c, is_admin)
    /\ hnd' = Called("set_is_admin", c)
    /\ UNCHANGED <<admin_requests, admin_request_confirmations, msgs_to_delete,
                   send_tasks, unconfirmed_texts>>
    /\ UNCHANGED <<lockVars, envVars, sjob, pjob, wrk, hist>>

\* take_admin (bots/heb1025/__main__.py, heb1025bot/main.py): refused when an
\* admin exists, else set_is_admin(chat, True); the reply, whose message id is
\* kept in hnd.id, is scheduled with the default ttl either way
HTakeAdmin(c) ==
    /\ StoreFree("handler")
    /\ CanSend
    /\ LET r == Schedule(msgs_to_delete, c, nextMsgId[c], HEB_DEFAULT_TTL)
       IN  /\ users' = IF HebGetAdminChatIds(users) # {}
                       THEN users
                       ELSE HebSetIsAdmin(users, c, TRUE)
           /\ msgs_to_delete' = r.tbl
           /\ hnd' = [Ended("take_admin", ErrOf(r)) EXCEPT !.chat = c, !.id = nextMsgId[c]]
    /\ nextMsgId' = SentTo(c)
    /\ UNCHANGED <<admin_requests, admin_request_confirmations, send_tasks,
                   unconfirmed_texts>>
    /\ UNCHANGED <<lockVars, now, prompts, sjob, pjob, wrk, hist>>

InitRegistry ==
    /\ users = [c \in Chats |-> NoUser]
    /\ InitLockPart
    /\ InitRest

InitHebRegistry ==
    /\ store \in {"SerializedDB", "Storage"}
    /\ InitRegistry

NextHebRegistry ==
    \/ \E c \in RegChats, p \in Profiles : HAddUser(c, p)
    \/ \E c \in RegChats, is_admin \in BOOLEAN : HSetIsAdmin(c, is_admin)
    \/ \E c \in RegChats : HTakeAdmin(c)
    \/ Tick

SpecHebRegistry == InitHebRegistry /\ [][NextHebRegistry]_vars

\* UsersStorage (bots/aspects/users.py) called by its users: add_user,
\* set_is_admin and set_banned for any chat id, in any order.
GAddUser(c, p) ==
    /\ StoreFree("handler")
    /\ users' = AddUserRow(users, c, p)
    /\ hnd' = Called("add_user", c)
    /\ UNCHANGED <<admin_requests, admin_request_confirmations, msgs_to_delete,
                   send_tasks, unconfirmed_texts>>
    /\ UNCHANGED <<lockVars, envVars, sjob, pjob, wrk, hist>>

GSetIsAdmin(c, is_admin) ==
    /\ StoreFree("handler")
    /\ users' = SetIsAdmin(users, c, is_admin)
    /\ hnd' = [Called("set_is_admin", c) EXCEPT !.id = IF is_admin THEN 1 ELSE 0]
    /\ UNCHANGED <<admin_requests, admin_request_confirmations, msgs_to_delete,
                   send_tasks, unconfirmed_texts>>
    /\ UNCHANGED <<lockVars, envVars, sjob, pjob, wrk, hist>>

GSetBanned(c, banned) ==
    /\ StoreFree("handler")
    /\ users' = SetBanned(users, c, banned)
    /\ hnd' = Called("set_banned", c)
    /\ UNCHANGED <<admin_requests, admin_request_confirmations, msgs_to_delete,
                   send_tasks, unconfirmed_texts>>
    /\ UNCHANGED <<lockVars, envVars, sjob, pjob, wrk, hist>>

\* create_admin_request(candidate_chat_id, request_text)
MaxPendingRequests == 1

GCreateAdminRequest(c) ==
    /\ StoreFree("handler")
    /\ Cardinality(admin_requests) < MaxPendingRequests
    /\ admin_requests' = admin_requests \cup {NewAdminRequest(admin_requests, c)}
    /\ hnd' = Called("create_admin_request", c)
    /\ UNCHANGED <<users, admin_request_confirmations, msgs_to_delete,
                   send_tasks, unconfirmed_texts>>
    /\ UNCHANGED <<lockVars, envVars, sjob, pjob, wrk, hist>>

\* accept_admin_request(request_id): _clear_admin_request, then
\* _set_is_admin_with_cursor(candidate_chat_id, True) in the same scope;
\* without a request row the tuple assignment raises TypeError
GAcceptAdminRequest(request_id) ==
    /\ StoreFree("handler")
    /\ LET request == SelectRequest(admin_requests, request_id)
       IN  IF request = NoRequest
           THEN /\ hnd' = [Ended("accept_admin_request", "TypeError") EXCEPT !.id = request_id]
                /\ UNCHANGED <<users, admin_requests, admin_request_confirmations>>
           ELSE /\ admin_request_confirmations' =
                      DeleteConfirmations(admin_request_confirmations, request_id)
                /\ admin_requests' = DeleteRequest(admin_requests, request_id)
                /\ users' = SetIsAdmin(users, request.candidate_chat_id, TRUE)
                /\ hnd' = [Called("accept_admin_request", request.candidate_chat_id)
                              EXCEPT !.id = request_id]
    /\ UNCHANGED <<msgs_to_delete, send_tasks, unconfirmed_texts>>
    /\ UNCHANGED <<lockVars, envVars, sjob, pjob, wrk, hist>>

InitUsersStorage ==
    /\ store = "SerializedDB"
    /\ InitRegistry

NextUsersStorage ==
    \/ \E c \in RegChats, p \in Profiles : GAddUser(c, p)
    \/ \E c \in RegChats, is_admin \in BOOLEAN : GSetIsAdmin(c, is_admin)
    \/ \E c \in RegChats, banned \in BOOLEAN : GSetBanned(c, banned)
    \/ \E c \in RegChats : GCreateAdminRequest(c)
    \/ \E request_id \in 1..MaxPendingRequests : GAcceptAdminRequest(request_id)
    \/ Tick

SpecUsersStorage == InitUsersStorage /\ [][NextUsersStorage]_vars

\* The storage side of the purge run twice in a row: get_scheduled(25) then
\* forget, with no schedule call and no step of the clock in between, on a
\* table with any number of due rows up to MaxPending and possibly a row that
\* is not due.  wrk counts the runs and keeps the batch of each.
MaxPending == 27

IdleDrain == [pc |-> "idle", runs |-> 0, batch |-> {}, first |-> {}, due |-> 0]

PendingRows(d, later) ==
    {[chat_id |-> 100, message_id |-> k, delete_at |-> 0] : k \in 1..d}
    \cup (IF later THEN {[chat_id |-> 200, message_id |-> 1, delete_at |-> PR_DEFAULT_TTL]}
          ELSE {})

DrainDue ==
    /\ wrk.pc = "idle" /\ wrk.runs < 2 /\ StoreFree("purge")
    /\ \E batch \in GetScheduled(msgs_to_delete, PURGE_LIMIT) :
          wrk' = [pc |-> "drained", runs |-> wrk.runs + 1, batch |-> batch,
                  first |-> IF wrk.runs = 0 THEN batch ELSE wrk.first,
                  due |-> IF wrk.runs = 0 THEN Cardinality(Due(msgs_to_delete))
                          ELSE wrk.due]
    /\ UNCHANGED <<lockVars, dbVars, envVars, hnd, sjob, pjob, hist>>

ForgetBatch ==
    /\ wrk.pc = "drained" /\ StoreFree("purge")
    /\ msgs_to_delete' = Forget(msgs_to_delete, wrk.batch)
    /\ wrk' = [wrk EXCEPT !.pc = "idle"]
    /\ UNCHANGED <<users, admin_requests, admin_request_confirmations,
                   send_tasks, unconfirmed_texts>>
    /\ UNCHANGED <<lockVars, envVars, hnd, sjob, pjob, hist>>

InitPurgeTwice ==
    /\ store \in {"SerializedDB", "Storage"}
    /\ users = [c \in Chats |-> NoRow]
    /\ InitLockPart
    /\ admin_requests = {}
    /\ admin_request_confirmations = {}
    /\ msgs_to_delete \in {PendingRows(d, later) : d \in 0..MaxPending, later \in BOOLEAN}
    /\ send_tasks = {}
    /\ unconfirmed_texts = {}
    /\ now = 0
    /\ nextMsgId = [c \in Chats |-> 1]
    /\ prompts = {}
    /\ hnd = IdleHnd
    /\ sjob = IdleSJob
    /\ pjob = IdlePJob
    /\ wrk = IdleDrain
    /\ hist = NoHist

NextPurgeTwice ==
    \/ DrainDue
    \/ ForgetBatch

SpecPurgeTwice == InitPurgeTwice /\ [][NextPurgeTwice]_vars

\* The send-task job alone, on the rows a confirmed broadcast left in
\* send_tasks, with every call of bot.send_message written to the history.
MaxAttempts == 4

JSendLogged ==
    /\ Len(hist.attempts) < MaxAttempts
    /\ JSendTask
    /\ hist' = [hist EXCEPT !.attempts = Append(hist.attempts, sjob.tasks[sjob.i].id)]

Broadcasts == {<<100, 200>>, <<100, 200, 300>>}

InitSendJob ==
    /\ store \in {"SerializedDB", "Storage"}
    /\ users = [c \in Chats |-> HebUserRow(c = 100)]
    /\ InitLockPart
    /\ admin_requests = {}
    /\ admin_request_confirmations = {}
    /\ msgs_to_delete = {}
    /\ send_tasks \in {SaveTasks({}, order, Text("Hello")) : order \in Broadcasts}
    /\ unconfirmed_texts = {}
    /\ now = 0
    /\ nextMsgId = [c \in Chats |-> 1]
    /\ prompts = {}
    /\ hnd = IdleHnd
    /\ sjob = IdleSJob
    /\ pjob = IdlePJob
    /\ wrk = IdleHnd
    /\ hist = NoHist

NextSendJob ==
    \/ JLoad
    \/ JSendLogged
    \/ JDismiss

SpecSendJob == InitSendJob /\ [][NextSendJob]_vars

(***************************************************************************)
(* One confirmed broadcast and the send-task job.  The draft and its       *)
(* prompt are in place; the history holds the send_tasks rows for which    *)
(* the job has called send_message.                                       *)
(***************************************************************************)
\* send_tasks(): one turn of the loop, with the task noted
JSendNoted ==
    /\ JSendTask
    /\ hist' = hist \cup {sjob.tasks[sjob.i]}

\* The prompt of the draft, sent before the messages the model counts.
DraftPrompt == Prompt(100, 11, "text", 1)

InitConfirm ==
    /\ store \in {"SerializedDB", "Storage"}
    /\ users = [c \in Chats |-> IF c = 300 THEN NoRow ELSE HebUserRow(c = 100)]
    /\ InitLockPart
    /\ admin_requests = {}
    /\ admin_request_confirmations = {}
    /\ msgs_to_delete = {}
    /\ send_tasks \in {{}, SaveTasks({}, <<200>>, Text("Earlier"))}
    /\ unconfirmed_texts =
          SaveConfirmationMessageId(SaveText({}, Text("Hello")), 1, DraftPrompt.message_id)
    /\ now = 0
    /\ nextMsgId = [c \in Chats |-> 1]
    /\ prompts = {DraftPrompt}
    /\ hnd = IdleHnd
    /\ sjob = IdleSJob
    /\ pjob = IdlePJob
    /\ wrk = IdleHnd
    /\ hist = {}

NextConfirm ==
    \/ \E u \in prompts : BSendLoad(u)
    \/ BSendSaveRecipients
    \/ BSendSaveSelf
    \/ BSendFinish
    \/ JLoad
    \/ JSendNoted
    \/ JDismiss

SpecConfirm == InitConfirm /\ [][NextConfirm]_vars

(***************************************************************************)
(* plural_ru on its own: the send branch calls it with the number of       *)
(* recipients; here with every number up to MaxPluralArg.                  *)
(***************************************************************************)
MaxPluralArg == 125

\* plural_ru(n, form_1, form_234, form_many); the handler's record keeps n and
\* the form returned
PluralCall ==
    /\ hnd.pc = "idle"
    /\ hnd' = [hnd EXCEPT !.pc = "done",
                          !.op = PluralRu(hnd.id, "form_1", "form_234", "form_many")]
    /\ UNCHANGED <<lockVars, dbVars, envVars, sjob, pjob, wrk, hist>>

InitPlural ==
    /\ store = "SerializedDB"
    /\ users = [c \in Chats |-> NoRow]
    /\ InitLockPart
    /\ admin_requests = {}
    /\ admin_request_confirmations = {}
    /\ msgs_to_delete = {}
    /\ send_tasks = {}
    /\ unconfirmed_texts = {}
    /\ now = 0
    /\ nextMsgId = [c \in Chats |-> 1]
    /\ prompts = {}
    /\ hnd \in {[IdleHnd EXCEPT !.id = n] : n \in 0..MaxPluralArg}
    /\ sjob = IdleSJob
    /\ pjob = IdlePJob
    /\ wrk = IdleHnd
    /\ hist = NoHist

NextPlural == PluralCall

SpecPlural == InitPlural /\ [][NextPlural]_vars

(***************************************************************************)
(* The send-task job on a queue longer than one batch, with rows saved     *)
(* while a run is under way.  No history is kept: the rows of send_tasks   *)
(* and the batch of the run tell which rows the run has attempted.         *)
(***************************************************************************)
QueuedAtStart == SEND_TASKS_LIMIT + 2   \* rows in send_tasks when the job starts
MaxSaves == 2                           \* save calls in a run; hist.serial counts them

\* The chat ids of n tasks, 100, 200, 100, ...
Recipients(n) == [i \in 1..n |-> IF i % 2 = 1 THEN 100 ELSE 200]

\* send_tasks_storage.save(chat_ids, text) called for a confirmed draft
QSave(order) ==
    /\ StoreFree("handler")
    /\ hist.serial < MaxSaves
    /\ send_tasks' = SaveTasks(send_tasks, order, Text("Hello"))
    /\ hist' = [hist EXCEPT !.serial = @ + 1]
    /\ UNCHANGED <<users, admin_requests, admin_request_confirmations,
                   msgs_to_delete, unconfirmed_texts>>
    /\ UNCHANGED <<lockVars, envVars, hnd, sjob, pjob, wrk>>

InitSendOrder ==
    /\ store \in {"SerializedDB", "Storage"}
    /\ users = [c \in Chats |-> HebUserRow(c = 100)]
    /\ InitLockPart
    /\ admin_requests = {}
    /\ admin_request_confirmations = {}
    /\ msgs_to_delete = {}
    /\ send_tasks = SaveTasks({}, Recipients(QueuedAtStart), Text("Hello"))
    /\ unconfirmed_texts = {}
    /\ now = 0
    /\ nextMsgId = [c \in Chats |-> 1]
    /\ prompts = {}
    /\ hnd = IdleHnd
    /\ sjob = IdleSJob
    /\ pjob = IdlePJob
    /\ wrk = IdleHnd
    /\ hist = NoHist

NextSendOrder ==
    \/ QSave(<<300, 100>>)
    \/ JLoad
    \/ JSend
    \/ JDismiss

SpecSendOrder == InitSendOrder /\ [][NextSendOrder]_vars

(***************************************************************************)
(* The two jobs of the heb1025 bot side by side: the send-task job on the  *)
(* rows of a confirmed broadcast and the purge job on msgs_to_delete,      *)
(* which holds rows of earlier messages when the bot starts.  A job run    *)
(* that stops (an error that is raised, or the process going down) leaves  *)
(* its locals behind and the tables as they are.                           *)
(***************************************************************************)
\* Rows of messages that earlier runs scheduled: one due at the start, one due
\* a step of the clock later.
EarlierMsgs ==
    {[chat_id |-> 100, message_id |-> 11, delete_at |-> 0],
     [chat_id |-> 200, message_id |-> 11, delete_at |-> ClockStep]}

InitJobs ==
    /\ store \in {"SerializedDB", "Storage"}
    /\ users = [c \in Chats |-> HebUserRow(c = 100)]
    /\ InitLockPart
    /\ admin_requests = {}
    /\ admin_request_confirmations = {}
    /\ msgs_to_delete = EarlierMsgs
    /\ send_tasks = SaveTasks({}, <<100, 200, 300>>, Text("Hello"))
    /\ unconfirmed_texts = {}
    /\ now = 0
    /\ nextMsgId = [c \in Chats |-> 1]
    /\ prompts = {}
    /\ hnd = IdleHnd
    /\ sjob = IdleSJob
    /\ pjob = IdlePJob
    /\ wrk = IdleHnd
    /\ hist = NoHist

NextJobs ==
    \/ JLoad
    \/ JSend
    \/ JDismiss
    \/ Tick
    \/ PLoad
    \/ PDelete
    \/ PForget

SpecJobs == InitJobs /\ [][NextJobs]_vars

(***************************************************************************)
(* The purge job under fair scheduling.  job_queue.run_repeating starts a  *)
(* run every interval and a run goes on to its end, so every step of the   *)
(* job that stays possible is taken, and the clock goes on.  The outcome   *)
(* of delete_message depends on the message: for a message of Unremovable  *)
(* the call fails on every run with an error that is not an expected one.  *)
(***************************************************************************)
Unremovable == {<<200, 11>>}

PurgeRows ==
    {[chat_id |-> 100, message_id |-> 11, delete_at |-> 0],
     [chat_id |-> 100, message_id |-> 12, delete_at |-> ClockStep],
     [chat_id |-> 200, message_id |-> 10, delete_at |-> 0],
     [chat_id |-> 200, message_id |-> 11, delete_at |-> ClockStep],
     [chat_id |-> 300, message_id |-> 11, delete_at |-> 2 * ClockStep]}

OutcomesOf(msg) ==
    IF msg \in Unremovable THEN {"other"} ELSE DeleteOutcomes \ {"other"}

PDeleteSteady ==
    \E msg \in pjob.todo : \E outcome \in OutcomesOf(msg) : PDeleteWith(msg, outcome)

InitPurgeFair ==
    /\ store = "SerializedDB"
    /\ users = [c \in Chats |-> NoRow]
    /\ InitLockPart
    /\ admin_requests = {}
    /\ admin_request_confirmations = {}
    /\ msgs_to_delete = PurgeRows
    /\ send_tasks = {}
    /\ unconfirmed_texts = {}
    /\ now = 0
    /\ nextMsgId = [c \in Chats |-> 1]
    /\ prompts = {}
    /\ hnd = IdleHnd
    /\ sjob = IdleSJob
    /\ pjob = IdlePJob
    /\ wrk = IdleHnd
    /\ hist = NoHist

NextPurgeFair ==
    \/ Tick
    \/ PLoad
    \/ PDeleteSteady
    \/ PForget

SpecPurgeFair ==
    /\ InitPurgeFair /\ [][NextPurgeFair]_vars
    /\ WF_vars(Tick) /\ WF_vars(PLoad) /\ WF_vars(PDeleteSteady) /\ WF_vars(PForget)

\* The pr1303 bot starts on the database file its last run left: an empty
\* registry, or one with two admins and a third user.
PrUserRow(is_admin) == [present |-> TRUE, is_admin |-> is_admin, banned |-> FALSE]
PrUsersTables ==
    {[c \in Chats |-> NoRow],
     [c \in Chats |-> IF c = 300 THEN PrUserRow(FALSE) ELSE PrUserRow(TRUE)]}

InitAdmin ==
    /\ store = "SerializedDB"
    /\ users \in PrUsersTables
    /\ InitLockPart
    /\ admin_requests = {}
    /\ admin_request_confirmations = {}
    /\ msgs_to_delete = {}
    /\ send_tasks = {}
    /\ unconfirmed_texts = {}
    /\ now = 0
    /\ nextMsgId = [c \in Chats |-> 1]
    /\ prompts = {}
    /\ hnd = IdleRes
    /\ wrk = IdleRes
    /\ sjob = IdleSJob
    /\ pjob = IdlePJob
    /\ hist = NoHist

NextAdmin ==
    \/ \E c \in Chats : UStart(c)
    \/ \E c \in Chats : UTakeAdmin(c)
    \/ \E c \in Chats : UDropAdmin(c)
    \/ \E t \in Resolvers, p \in prompts, type \in ResolutionTypes : RBegin(t, p, type)
    \/ \E t \in Resolvers : RSelect(t)
    \/ \E t \in Resolvers : RDelete(t)
    \/ \E t \in Resolvers : RRelease(t)
    \/ \E t \in Resolvers : RNotify(t)
    \/ \E t \in Resolvers : REdit(t)

SpecAdmin == InitAdmin /\ [][NextAdmin]_vars

\* The registry under the ban workflow: the commands and the ban prompts.
NextBan ==
    \/ \E c \in Chats : UStart(c)
    \/ \E c \in Chats : UTakeAdmin(c)
    \/ \E c \in Chats : UDropAdmin(c)
    \/ \E c \in Chats, kind \in {"ban", "unban"}, target \in Chats : UBanUser(c, kind, target)
    \/ \E p \in prompts, cancel \in BOOLEAN : UBanCallback(p, cancel)

SpecBan == InitAdmin /\ [][NextBan]_vars

(***************************************************************************)
(* drop_admin among bans and unbans.  The history holds the chats whose    *)
(* /drop_admin has been handled.                                           *)
(***************************************************************************)
NoneDropped == [c \in Chats |-> FALSE]

DDropAdmin(c) == UDropAdminAs(c, [hist EXCEPT ![c] = TRUE])

InitDropAdmin ==
    /\ store = "SerializedDB"
    /\ users = [c \in Chats |-> IF c = 300 THEN NoRow ELSE PrUserRow(TRUE)]
    /\ InitLockPart
    /\ admin_requests = {}
    /\ admin_request_confirmations = {}
    /\ msgs_to_delete = {}
    /\ send_tasks = {}
    /\ unconfirmed_texts = {}
    /\ now = 0
    /\ nextMsgId = [c \in Chats |-> 1]
    /\ prompts = {}
    /\ hnd = IdleRes
    /\ wrk = IdleRes
    /\ sjob = IdleSJob
    /\ pjob = IdlePJob
    /\ hist = NoneDropped

NextDropAdmin ==
    \/ \E c \in Chats : UStart(c)
    \/ \E c \in Chats : DDropAdmin(c)
    \/ \E c \in Chats, kind \in {"ban", "unban"}, target \in Chats : UBanUser(c, kind, target)
    \/ \E p \in prompts, cancel \in BOOLEAN : UBanCallback(p, cancel)

SpecDropAdmin == InitDropAdmin /\ [][NextDropAdmin]_vars

(***************************************************************************)
(* Admin requests among bans: a candidate can be banned while the request  *)
(* is pending.                                                             *)
(***************************************************************************)
InitAcceptBan ==
    /\ store = "SerializedDB"
    /\ users = [c \in Chats |-> IF c = 100 THEN PrUserRow(TRUE) ELSE PrUserRow(FALSE)]
    /\ InitLockPart
    /\ admin_requests = {}
    /\ admin_request_confirmations = {}
    /\ msgs_to_delete = {}
    /\ send_tasks = {}
    /\ unconfirmed_texts = {}
    /\ now = 0
    /\ nextMsgId = [c \in Chats |-> 1]
    /\ prompts = {}
    /\ hnd = IdleRes
    /\ wrk = IdleRes
    /\ sjob = IdleSJob
    /\ pjob = IdlePJob
    /\ hist = NoHist

NextAcceptBan ==
    \/ \E c \in Chats : UTakeAdmin(c)
    \/ \E c \in Chats, kind \in {"ban", "unban"}, target \in Chats : UBanUser(c, kind, target)
    \/ \E p \in prompts, cancel \in BOOLEAN : UBanCallback(p, cancel)
    \/ \E p \in prompts, type \in ResolutionTypes : RBegin("handler", p, type)
    \/ RSelect("handler")
    \/ RDelete("handler")
    \/ RRelease("handler")
    \/ RNotify("handler")
    \/ REdit("handler")

SpecAcceptBan == InitAcceptBan /\ [][NextAcceptBan]_vars

\* /take_admin and /drop_admin on any registry the bot can have built: each
\* chat id has no row, or a row with any is_admin and banned flags.  The
\* handler of /take_admin leaves its name and its chat id in hnd.
AnyUsersTables ==
    [Chats -> {NoRow} \cup {[present |-> TRUE, is_admin |-> a, banned |-> b]
                               : a \in BOOLEAN, b \in BOOLEAN}]

TTakeAdmin(c) ==
    UTakeAdminAs(c, [IdleRes EXCEPT !.op = "take_admin", !.chat = c])

InitTakeAdmin ==
    /\ store = "SerializedDB"
    /\ users \in AnyUsersTables
    /\ InitLockPart
    /\ admin_requests = {}
    /\ admin_request_confirmations = {}
    /\ msgs_to_delete = {}
    /\ send_tasks = {}
    /\ unconfirmed_texts = {}
    /\ now = 0
    /\ nextMsgId = [c \in Chats |-> 1]
    /\ prompts = {}
    /\ hnd = IdleRes
    /\ wrk = IdleRes
    /\ sjob = IdleSJob
    /\ pjob = IdlePJob
    /\ hist = NoHist

NextTakeAdmin ==
    \/ \E c \in Chats : TTakeAdmin(c)
    \/ \E c \in Chats : UDropAdmin(c)

SpecTakeAdmin == InitTakeAdmin /\ [][NextTakeAdmin]_vars

(***************************************************************************)
(* take_admin, the branch that creates a request, store operation by       *)
(* store operation: create_admin_request, then for each admin the prompt   *)
(* and its schedule, then save_admin_request_confirmations, then the       *)
(* reply.  The prompts show their buttons before the confirmation rows are *)
(* saved; the dispatcher takes the next update, a press of a button among  *)
(* them, when the handler has returned or raised.                          *)
(***************************************************************************)
\* existing_admins is read once; the users table does not change while the
\* handler runs
PromptOrder == Ascending(GetAdminChatIds(users))

MaxRequests == 2    \* admin requests created in a run; hist.serial counts them

\* is_banned, get_admin_chat_ids, create_admin_request
UCreateRequest(c) ==
    /\ DispatcherFree
    /\ hist.serial < MaxRequests
    /\ ~IsBanned(users, c)
    /\ GetAdminChatIds(users) # {}
    /\ c \notin GetAdminChatIds(users)
    /\ LET request == NewAdminRequest(admin_requests, c)
       IN  /\ admin_requests' = admin_requests \cup {request}
           /\ hist' = [hist EXCEPT !.serial = hist.serial + 1,
                                   !.live = hist.live \cup {<<request.id, hist.serial + 1>>}]
           /\ hnd' = [IdleRes EXCEPT !.pc = "prompt", !.op = "take_admin", !.chat = c,
                                     !.id = request.id, !.request = request, !.i = 1]
    /\ UNCHANGED <<users, admin_request_confirmations, msgs_to_delete, send_tasks,
                   unconfirmed_texts>>
    /\ UNCHANGED <<lockVars, envVars, sjob, pjob, wrk>>

\* One turn of the loop over existing_admins: bot.send_message with the two
\* buttons, schedule, confirmation_msgs.append.  send_message raises when the
\* admin has blocked the bot; the handler ends there.
UPromptAdmin ==
    /\ hnd.pc = "prompt" /\ hnd.i <= Len(PromptOrder)
    /\ \/ hnd' = [hnd EXCEPT !.pc = "error", !.err = "Unauthorized"]
          /\ UNCHANGED <<msgs_to_delete, nextMsgId, prompts>>
       \/ LET chat_id == PromptOrder[hnd.i]
              r == Schedule(msgs_to_delete, chat_id, nextMsgId[chat_id], ADMIN_MSG_TTL)
          IN  /\ CanSendAdmin(1)
              /\ nextMsgId' = SentTo(chat_id)
              /\ prompts' = prompts \cup {Prompt(chat_id, nextMsgId[chat_id], "request", hnd.id)}
              /\ msgs_to_delete' = r.tbl
              /\ hnd' = IF r.ok
                        THEN [hnd EXCEPT !.i = hnd.i + 1,
                                         !.confirmations =
                                             Append(hnd.confirmations,
                                                    <<chat_id, nextMsgId[chat_id]>>)]
                        ELSE [hnd EXCEPT !.pc = "error", !.err = ErrOf(r)]
    /\ UNCHANGED <<users, admin_requests, admin_request_confirmations, send_tasks,
                   unconfirmed_texts>>
    /\ UNCHANGED <<lockVars, now, sjob, pjob, wrk, hist>>

\* save_admin_request_confirmations(request.id, confirmation_msgs)
USaveConfirmations ==
    /\ hnd.pc = "prompt" /\ hnd.i > Len(PromptOrder)
    /\ StoreFree("handler")
    /\ admin_request_confirmations' =
          SaveAdminRequestConfirmations(admin_request_confirmations, hnd.id,
                                        hnd.confirmations)
    /\ hnd' = [hnd EXCEPT !.pc = "reply"]
    /\ UNCHANGED <<users, admin_requests, msgs_to_delete, send_tasks, unconfirmed_texts>>
    /\ UNCHANGED <<lockVars, envVars, sjob, pjob, wrk, hist>>

\* The reply to the candidate, scheduled
UAcknowledge ==
    /\ hnd.pc = "reply"
    /\ ReplyAs(hnd.chat, PR_DEFAULT_TTL, [IdleRes EXCEPT !.op = "take_admin", !.chat = hnd.chat])
    /\ UNCHANGED <<users, admin_requests, admin_request_confirmations, send_tasks,
                   unconfirmed_texts>>
    /\ UNCHANGED <<lockVars, now, prompts, sjob, pjob, wrk, hist>>

\* Registries with one admin or two, and candidates.
RequestUsersTables ==
    {[c \in Chats |-> IF c \in admins THEN PrUserRow(TRUE) ELSE PrUserRow(FALSE)]
        : admins \in {{100}, {100, 200}}}

InitRequest ==
    /\ store = "SerializedDB"
    /\ users \in RequestUsersTables
    /\ InitLockPart
    /\ admin_requests = {}
    /\ admin_request_confirmations = {}
    /\ msgs_to_delete = {}
    /\ send_tasks = {}
    /\ unconfirmed_texts = {}
    /\ now = 0
    /\ nextMsgId = [c \in Chats |-> 1]
    /\ prompts = {}
    /\ hnd = IdleRes
    /\ wrk = IdleRes
    /\ sjob = IdleSJob
    /\ pjob = IdlePJob
    /\ hist = NoHist

NextRequest ==
    \/ \E c \in Chats : UCreateRequest(c)
    \/ UPromptAdmin
    \/ USaveConfirmations
    \/ UAcknowledge
    \/ \E c \in Chats : UDropAdmin(c)
    \/ \E p \in prompts, type \in ResolutionTypes : RBegin("handler", p, type)
    \/ RSelect("handler")
    \/ RDelete("handler")
    \/ RRelease("handler")
    \/ RNotify("handler")
    \/ REdit("handler")

SpecRequest == InitRequest /\ [][NextRequest]_vars

(***************************************************************************)
(* take_admin from its first statement: the read of the admins and the     *)
(* write of the promotion are two store operations.                        *)
(***************************************************************************)
\* is_banned, existing_admins = get_admin_chat_ids(), `if not existing_admins:`
UCheckAdmins(c) ==
    /\ DispatcherFree
    /\ ~IsBanned(users, c)
    /\ GetAdminChatIds(users) = {}
    /\ hnd' = [IdleRes EXCEPT !.pc = "promote", !.op = "take_admin", !.chat = c]
    /\ UNCHANGED <<lockVars, dbVars, envVars, sjob, pjob, wrk, hist>>

\* set_is_admin(chat_id, True) and the greeting, scheduled
UPromote ==
    /\ hnd.pc = "promote"
    /\ StoreFree("handler")
    /\ users' = SetIsAdmin(users, hnd.chat, TRUE)
    /\ ReplyAs(hnd.chat, ADMIN_MSG_TTL, [IdleRes EXCEPT !.op = "take_admin", !.chat = hnd.chat])
    /\ UNCHANGED <<admin_requests, admin_request_confirmations, send_tasks,
                   unconfirmed_texts>>
    /\ UNCHANGED <<lockVars, now, prompts, sjob, pjob, wrk, hist>>

\* Registries without an admin, or whose one admin is banned.
PromoteUsersTables ==
    {[c \in Chats |-> PrUserRow(FALSE)],
     [c \in Chats |-> IF c = 300 THEN [PrUserRow(TRUE) EXCEPT !.banned = TRUE]
                      ELSE PrUserRow(FALSE)]}

InitPromote ==
    /\ store = "SerializedDB"
    /\ users \in PromoteUsersTables
    /\ InitLockPart
    /\ admin_requests = {}
    /\ admin_request_confirmations = {}
    /\ msgs_to_delete = {}
    /\ send_tasks = {}
    /\ unconfirmed_texts = {}
    /\ now = 0
    /\ nextMsgId = [c \in Chats |-> 1]
    /\ prompts = {}
    /\ hnd = IdleRes
    /\ wrk = IdleRes
    /\ sjob = IdleSJob
    /\ pjob = IdlePJob
    /\ hist = NoHist

NextPromote ==
    \/ \E c \in Chats : UCheckAdmins(c)
    \/ UPromote
    \/ \E c \in Chats : UCreateRequest(c)
    \/ UPromptAdmin
    \/ USaveConfirmations
    \/ UAcknowledge
    \/ \E c \in Chats : UDropAdmin(c)
    \/ \E p \in prompts, type \in ResolutionTypes : RBegin("handler", p, type)
    \/ RSelect("handler")
    \/ RDelete("handler")
    \/ RRelease("handler")
    \/ RNotify("handler")
    \/ REdit("handler")

SpecPromote == InitPromote /\ [][NextPromote]_vars

(***************************************************************************)
(* The draft workflow of the heb1025 bot on its own: on_text, the callback *)
(* handler with every 'type' a payload can carry, and the admin commands.  *)
(* The dispatcher runs one handler at a time; a press can reach it for any *)
(* prompt that was ever sent.  Each text typed is a text not typed before, *)
(* so that a send_tasks row tells which draft it came from.                *)
(***************************************************************************)
DraftBodies == <<"first", "second", "third", "fourth">>
CallbackTypes == {"cancel", "send", "delete", "ban"}

\* (a chain that ends in `else` with the 'cancel' branch, for comparison)
HebBranchOrCancel(callback_type) ==
    IF callback_type = "send" THEN "send" ELSE "cancel"
\* if callback_type == 'cancel': ... elif callback_type == 'send': ... ; the
\* chain has no else
HebBranch(callback_type) ==
    IF callback_type = "cancel" THEN "cancel"
    ELSE IF callback_type = "send" THEN "send"
    ELSE None

\* on_callback for a press on prompt u whose payload has 'type' callback_type
BOnCallback(u, callback_type) ==
    CASE HebBranch(callback_type) = "cancel" -> BCancelAs(u, callback_type)
      [] HebBranch(callback_type) = "send" -> BSendLoad(u)
      [] OTHER ->
            /\ HndFree /\ StoreFree("handler")
            /\ u \in prompts
            /\ hnd' = EndedQuery(callback_type, u, None)
            /\ UNCHANGED <<lockVars, dbVars, envVars, sjob, pjob, wrk, hist>>

\* on_text with a text that was not typed before
BOnNewText(c) ==
    /\ MsgsSent < Len(DraftBodies)
    /\ BOnText(c, DraftBodies[MsgsSent + 1])

InitDraft ==
    /\ store \in {"SerializedDB", "Storage"}
    /\ users = [c \in Chats |-> IF c = 300 THEN NoRow ELSE HebUserRow(c = 100)]
    /\ InitLockPart
    /\ InitRest

NextDraft ==
    \/ \E c \in Chats : BTakeAdmin(c)
    \/ \E c \in Chats : BDropAdmin(c)
    \/ \E c \in Chats : BOnNewText(c)
    \/ \E u \in prompts, callback_type \in CallbackTypes : BOnCallback(u, callback_type)
    \/ BSendSaveRecipients
    \/ BSendSaveSelf
    \/ BSendFinish

SpecDraft == InitDraft /\ [][NextDraft]_vars

(***************************************************************************)
(* The numbered ban workflow of UsersBehavior: /list_users and /ban_list   *)
(* render a numbered list, '/ban N' and '/unban N' take a number, and the  *)
(* confirmation button carries a chat id.  In this specification hist      *)
(* holds, for each chat, the two lists the bot last rendered to it.        *)
(***************************************************************************)
RECURSIVE Orderings(_)
Orderings(S) ==
    IF S = {} THEN {<<>>}
    ELSE UNION {{<<x>> \o s : s \in Orderings(S \ {x})} : x \in S}

\* _get_users: the rows of the chat ids S, ORDER BY start_time; rows of the
\* same start_time come in any order
GetUsers(tbl, S) ==
    {s \in Orderings(S) :
        \A i, j \in 1..Len(s) : i < j => tbl[s[i]].start_time <= tbl[s[j]].start_time}

\* get_all_users(): WHERE NOT banned
GetAllUsers(tbl) == GetUsers(tbl, {c \in Chats : tbl[c].present /\ ~tbl[c].banned})
\* get_banned_users(): WHERE banned
GetBannedUsers(tbl) == GetUsers(tbl, {c \in Chats : tbl[c].present /\ tbl[c].banned})

\* The list that '/ban N' (kind "ban") or '/unban N' (kind "unban") numbers.
ListOf(tbl, kind) == IF kind = "ban" THEN GetAllUsers(tbl) ELSE GetBannedUsers(tbl)

MaxListMsgs == 3    \* messages the bot sends in a run of the numbered ban workflow
ListedProfile == CHOOSE p \in Profiles : TRUE

NoLists == [c \in Chats |-> [ban |-> <<>>, unban |-> <<>>]]

\* ban_user: users = get_all_users(); unban_user: banned = get_banned_users()
NumberedList(c, kind) == ListOf(users, kind)

\* start (bots/pr1303/__main__.py): add_user with the profile of the sender
LStart(c) ==
    /\ DispatcherFree
    /\ users' = AddUserRow(users, c, ListedProfile)
    /\ hnd' = IdleRes
    /\ UNCHANGED <<admin_requests, admin_request_confirmations, msgs_to_delete,
                   send_tasks, unconfirmed_texts>>
    /\ UNCHANGED <<lockVars, envVars, sjob, pjob, wrk, hist>>

\* list_users (kind "ban") and ban_list (kind "unban"): a non-admin is refused,
\* an admin gets the numbered list; the reply is scheduled either way
LListUsers(c, kind) ==
    /\ DispatcherFree
    /\ kind \in {"ban", "unban"}
    /\ MsgsSent < MaxListMsgs
    /\ Reply(c, PR_DEFAULT_TTL)
    /\ IF IsAdmin(users, c)
       THEN \E listed \in ListOf(users, kind) : hist' = [hist EXCEPT ![c][kind] = listed]
       ELSE hist' = hist
    /\ UNCHANGED <<users, admin_requests, admin_request_confirmations, send_tasks,
                   unconfirmed_texts>>
    /\ UNCHANGED <<lockVars, now, prompts, sjob, pjob, wrk>>

\* ban_user / unban_user with args[0] = number: a non-admin is refused, a
\* number outside the list gets a reply, and otherwise the confirmation prompt
\* carries the chat id of the user at that position
LBanUser(c, kind, number) ==
    /\ DispatcherFree
    /\ kind \in {"ban", "unban"}
    /\ MsgsSent < MaxListMsgs
    /\ \E listed \in NumberedList(c, kind) :
          LET valid == IsAdmin(users, c) /\ 1 <= number /\ number <= Len(listed)
          IN  /\ ReplyAs(c, PR_DEFAULT_TTL,
                         [IdleRes EXCEPT !.op = kind, !.chat = c, !.id = number])
              /\ valid =>
                    Cardinality({p \in prompts : p.kind \in {"ban", "unban"}}) < MaxBanPrompts
              /\ prompts' = IF valid
                            THEN prompts \cup {Prompt(c, nextMsgId[c], kind, listed[number])}
                            ELSE prompts
    /\ UNCHANGED <<users, admin_requests, admin_request_confirmations, send_tasks,
                   unconfirmed_texts>>
    /\ UNCHANGED <<lockVars, now, sjob, pjob, wrk, hist>>

InitBanList ==
    /\ store = "SerializedDB"
    /\ InitLockPart
    /\ users = [c \in Chats |->
                  IF c = 100 THEN UserRow(ListedProfile, 0, TRUE, FALSE)
                  ELSE IF c = 200 THEN UserRow(ListedProfile, ClockStep, FALSE, FALSE)
                  ELSE NoUser]
    /\ admin_requests = {}
    /\ admin_request_confirmations = {}
    /\ msgs_to_delete = {}
    /\ send_tasks = {}
    /\ unconfirmed_texts = {}
    /\ now = 2 * ClockStep
    /\ nextMsgId = [c \in Chats |-> 1]
    /\ prompts = {}
    /\ hnd = IdleRes
    /\ wrk = IdleRes
    /\ sjob = IdleSJob
    /\ pjob = IdlePJob
    /\ hist = NoLists

NextBanList ==
    \/ \E c \in Chats : LStart(c)
    \/ \E c \in Chats, kind \in {"ban", "unban"} : LListUsers(c, kind)
    \/ \E c \in Chats, kind \in {"ban", "unban"}, number \in 1..3 : LBanUser(c, kind, number)
    \/ \E p \in prompts, cancel \in BOOLEAN : UBanCallback(p, cancel)

SpecBanList == InitBanList /\ [][NextBanList]_vars

(***************************************************************************)
(* The messages the heb1025 bot sends from its handlers, each one counted  *)
(* in nextMsgId, and the rows msgs_to_delete gets for them.                *)
(***************************************************************************)
\* start: add_user, then update.message.reply_text(greeting); the message is
\* not passed to schedule
BStartGreeting(c) ==
    /\ HndFree /\ StoreFree("handler")
    /\ CanSend
    /\ users' = HebAddUser(users, c)
    /\ nextMsgId' = SentTo(c)
    /\ hnd' = [Ended("start", None) EXCEPT !.chat = c, !.id = nextMsgId[c]]
    /\ UNCHANGED <<admin_requests, admin_request_confirmations, msgs_to_delete,
                   send_tasks, unconfirmed_texts>>
    /\ UNCHANGED <<lockVars, now, prompts, sjob, pjob, wrk, hist>>

\* list_users: reply_text of the numbered list; the message is not passed to
\* schedule
BListUsers(c) ==
    /\ HndFree /\ StoreFree("handler")
    /\ CanSend
    /\ nextMsgId' = SentTo(c)
    /\ hnd' = [Ended("list_users", None) EXCEPT !.chat = c, !.id = nextMsgId[c]]
    /\ UNCHANGED <<lockVars, dbVars, now, prompts, sjob, pjob, wrk, hist>>

NextReplies ==
    \/ \E c \in Chats : BStartGreeting(c)
    \/ \E c \in Chats : BListUsers(c)
    \/ \E c \in Chats : BTakeAdmin(c)
    \/ \E c \in Chats : BDropAdmin(c)
    \/ \E c \in Chats : BOnNewText(c)
    \/ JLoad
    \/ JSend
    \/ JDismiss

SpecReplies == InitJobs /\ [][NextReplies]_vars

(***************************************************************************)
(* C4: every with_cursor scope releases the store lock on every exit path  *)
(* (normal end, exception in the body, failure of cursor_getter, of        *)
(* cursor.close or of the commit): a thread that is outside every scope    *)
(* does not hold the lock.                                                 *)
(***************************************************************************)
LockReleasedOnEveryExit ==
    \A t \in Threads : scope[t].pc = "idle" => lockOwner # t

(***************************************************************************)
(* C5: at most one thread is inside a with_cursor scope of the store at    *)
(* any time.                                                               *)
(***************************************************************************)
AtMostOneInScope ==
    Cardinality({t \in Threads : InScope(t)}) <= 1

\* One thread runs the body of its scope while another waits in lock.acquire().
ScopeContended ==
    \E t1, t2 \in Threads :
        /\ t1 # t2
        /\ scope[t1].pc = "body"
        /\ scope[t2].pc = "acquire"

(***************************************************************************)
(* C7: when an admin confirms ('send') a pending draft while N users are   *)
(* active, the handler creates exactly N+1 send_tasks rows: one row per    *)
(* active chat id with the draft's text and one row for the confirming     *)
(* chat whose text reports N; when the handler has returned no             *)
(* unconfirmed_texts row of the draft is left.                             *)
(***************************************************************************)
SendCreatesTasksAndRemovesDraft ==
    (hnd.pc = "done" /\ hnd.op = "send" /\ hnd.info # NoInfo) =>
        LET active == HebGetAllChatIds(users)
            N == Cardinality(active)
            recipients == {r \in hnd.created : r.text = hnd.info.text}
            notes == {r \in hnd.created : r.text = SentText(N)}
        IN  /\ Cardinality(hnd.created) = N + 1
            /\ Cardinality(recipients) = N
            /\ {r.chat_id : r \in recipients} = active
            /\ Cardinality(notes) = 1
            /\ \A r \in notes : r.chat_id = hnd.chat
            /\ ~ \E r \in unconfirmed_texts : r.id = hnd.info.id

\* A confirmation has returned with three active users, while the send-task
\* job was working on rows of the table.
SendConfirmedForThree ==
    /\ hnd.pc = "done" /\ hnd.op = "send" /\ hnd.info # NoInfo
    /\ Cardinality(HebGetAllChatIds(users)) = 3
    /\ sjob.pc = "send"

(***************************************************************************)
(* C8: a 'send' or 'cancel' callback whose text_id has no unconfirmed_texts*)
(* row is a no-op: the handler returns without an exception, creates no    *)
(* send_tasks row and deletes no row.                                      *)
(***************************************************************************)
MissingDraftIsNoOp ==
    [][ ( /\ HndFree
          /\ hnd' # hnd
          /\ hnd'.op \in {"send", "cancel"}
          /\ LoadText(unconfirmed_texts, hnd'.id) = NoInfo )
        => ( /\ hnd'.pc = "done"
             /\ send_tasks' = send_tasks
             /\ unconfirmed_texts' = unconfirmed_texts ) ]_vars

(***************************************************************************)
(* C9: cancelling an existing draft deletes its unconfirmed_texts row, and *)
(* only that row, and leaves the send_tasks table and the users table as   *)
(* they were.                                                              *)
(***************************************************************************)
CancelDeletesDraftOnly ==
    [][ ( /\ HndFree
          /\ hnd' # hnd
          /\ hnd'.op = "cancel"
          /\ LoadText(unconfirmed_texts, hnd'.id) # NoInfo )
        => ( /\ hnd'.pc = "done"
             /\ unconfirmed_texts' =
                    unconfirmed_texts \ {LoadText(unconfirmed_texts, hnd'.id)}
             /\ ~ \E r \in unconfirmed_texts' : r.id = hnd'.id
             /\ send_tasks' = send_tasks
             /\ users' = users ) ]_vars

\* A draft has been cancelled while the send_tasks table held rows of an
\* earlier broadcast and another draft was pending.
DraftCancelled ==
    /\ hnd.pc = "done" /\ hnd.op = "cancel"
    /\ send_tasks # {}
    /\ ~ \E r \in unconfirmed_texts : r.id = hnd.id

(***************************************************************************)
(* C10: a run of the send-task job ends only after every task of its batch *)
(* was attempted, whatever the deliveries did, and with every task id of   *)
(* the batch gone from send_tasks.                                         *)
(***************************************************************************)
BatchAttemptedAndDismissed ==
    [][ (sjob.pc = "send" /\ sjob'.pc = "idle")
        => ( /\ sjob.i > Len(sjob.tasks)
             /\ TaskIds(sjob.tasks) \cap {r.id : r \in send_tasks'} = {} ) ]_vars

(***************************************************************************)
(* C3: scheduling a (chat_id, message_id) pair whose entry is still        *)
(* pending succeeds without a duplicate-key failure, and msgs_to_delete    *)
(* holds at most one row for a pair.                                       *)
(***************************************************************************)
RescheduleSucceeds ==
    [][ ( /\ HndFree
          /\ hnd' # hnd
          /\ hnd'.op = "schedule"
          /\ HasKey(msgs_to_delete, hnd'.chat, hnd'.id) )
        => ( /\ hnd'.pc = "done"
             /\ Cardinality({r \in msgs_to_delete' : KeyOf(r) = <<hnd'.chat, hnd'.id>>}) = 1 ) ]_vars

(***************************************************************************)
(* C1: when two resolutions (accept or reject) of one admin request run    *)
(* concurrently, exactly one takes full effect: its scope deletes the      *)
(* request row and all its confirmation rows and promotes the candidate    *)
(* only on accept, and the candidate is notified once; the other one       *)
(* changes nothing in users, admin_requests or                             *)
(* admin_request_confirmations.                                            *)
(***************************************************************************)
ResolvedOnce ==
    /\ \A n \in 1..hist.serial :
          /\ Count(hist.won, n) <= 1
          /\ Count(hist.notes, n) <= Count(hist.won, n)
    /\ \A t \in Resolvers :
          (R(t).op \in ResolutionTypes /\ R(t).pc \in {"edit", "done"})
              => Count(hist.notes, R(t).serial) = 1

ResolutionStep ==
    \A t \in Resolvers :
        /\ (R(t).pc = "delete" /\ R(t)'.pc = "release") =>
              LET candidate == R(t).request.candidate_chat_id
              IN  /\ ~ \E r \in admin_requests' : r.id = R(t).id
                  /\ ~ \E r \in admin_request_confirmations' : r.request_id = R(t).id
                  /\ \A c \in Chats \ {candidate} : users'[c] = users[c]
                  /\ users'[candidate].banned = users[candidate].banned
                  /\ users'[candidate].is_admin # users[candidate].is_admin
                        => R(t).op = "accept_admin_request"
                  /\ (R(t).op = "accept_admin_request" /\ ~IsBanned(users, candidate))
                        => users'[candidate].is_admin
        /\ ( /\ R(t)' # R(t)
             /\ R(t)'.op \in ResolutionTypes
             /\ R(t)'.request = NoRequest
             /\ R(t)'.pc # "select" ) =>
              /\ users' = users
              /\ admin_requests' = admin_requests
              /\ admin_request_confirmations' = admin_request_confirmations
              /\ hist' = hist

ExactlyOneResolutionTakesEffect == []ResolvedOnce /\ [][ResolutionStep]_vars

\* Two admins pressed buttons of one request: the worker's run has found no
\* row and raised while the run that deleted the row has not yet notified the
\* candidate.
ResolutionsOverlap ==
    /\ hnd.op \in ResolutionTypes /\ wrk.op \in ResolutionTypes
    /\ hnd.id = wrk.id /\ hnd.chat # wrk.chat
    /\ hnd.pc = "notify"
    /\ wrk.pc = "error" /\ wrk.err = "TypeError"

(***************************************************************************)
(* C2: a resolution callback whose request id has no admin_requests row    *)
(* ends without an exception and without a notification of a candidate.    *)
(***************************************************************************)
MissingRequestIsBenign ==
    \A t \in Resolvers :
        (R(t).op \in ResolutionTypes /\ R(t).request = NoRequest)
            => /\ R(t).err = None
               /\ R(t).pc \notin {"notify", "edit"}

(***************************************************************************)
(* C6: a chat id whose users row has banned set is not in the result of    *)
(* get_all_chat_ids() nor of get_admin_chat_ids(), and is_admin(chat_id)   *)
(* is false, whatever its is_admin flag is.                                *)
(***************************************************************************)
BannedIsGated ==
    \A c \in Chats :
        (users[c].present /\ users[c].banned) =>
            /\ c \notin GetAllChatIds(users)
            /\ c \notin GetAdminChatIds(users)
            /\ ~IsAdmin(users, c)

\* An admin is banned, its is_admin flag still set, and the prompt that will
\* unban it is waiting for its button.
AdminBanned ==
    \E c \in Chats :
        /\ users[c].present /\ users[c].banned /\ users[c].is_admin
        /\ \E p \in prompts : p.kind = "unban" /\ p.id = c /\ p.buttons

(***************************************************************************)
(* C11: over any sequence of runs of the send-task job, bot.send_message   *)
(* is called at most once for each send_tasks row, also when a delivery of *)
(* the same batch fails.                                                   *)
(***************************************************************************)
AtMostOneAttemptPerTask ==
    \A k, l \in 1..Len(hist.attempts) :
        hist.attempts[k] = hist.attempts[l] => k = l

(***************************************************************************)
(* C12: in a run of the purge job a delete_message call that fails with    *)
(* 'Message to delete not found' or "Message can't be deleted" is passed   *)
(* over, the run goes on and its forget removes the whole batch; a call    *)
(* that fails with any other error ends the run with no entry of the batch *)
(* forgotten, so the rows are all in msgs_to_delete for the next run.      *)
(***************************************************************************)
DeleteCalled == pjob.pc = "delete" /\ pjob.todo # {} /\ pjob' # pjob

PurgeSwallowsExpectedErrors ==
    [][/\ (DeleteCalled /\ pjob'.outcome \in ExpectedErrors) =>
              /\ pjob'.pc = "delete"
              /\ pjob'.msgs = pjob.msgs
              /\ msgs_to_delete' = msgs_to_delete
       /\ (DeleteCalled /\ pjob'.outcome = "other") =>
              /\ pjob'.pc = "idle"
              /\ msgs_to_delete' = msgs_to_delete
              /\ \A msg \in pjob.msgs : HasKey(msgs_to_delete', msg[1], msg[2])
       /\ (pjob.pc = "delete" /\ pjob.todo = {} /\ pjob' # pjob) =>
              /\ pjob'.pc = "idle"
              /\ \A msg \in pjob.msgs : ~HasKey(msgs_to_delete', msg[1], msg[2])
              /\ \A r \in msgs_to_delete : KeyOf(r) \notin pjob.msgs => r \in msgs_to_delete'
      ]_vars

(***************************************************************************)
(* C13 as stated: get_scheduled(25) then forget, run twice in a row with   *)
(* no schedule call in between, gives an empty second batch for any number *)
(* of pending entries.                                                     *)
(***************************************************************************)
SecondDrain == wrk.pc = "drained" /\ wrk.runs = 2

SecondBatchEmpty == SecondDrain => wrk.batch = {}

(***************************************************************************)
(* C13, amended: the second batch is empty when at most 25 entries were    *)
(* due at the first drain; when more were due, the second batch holds due  *)
(* entries that were not in the first one (up to 25 of them), and no entry *)
(* is in both batches.  Entries that are not due stay in the table.        *)
(***************************************************************************)
SecondBatchHoldsTheRest ==
    SecondDrain =>
        /\ wrk.due <= PURGE_LIMIT => wrk.batch = {}
        /\ wrk.batch \cap wrk.first = {}
        /\ Cardinality(wrk.first) = IF wrk.due <= PURGE_LIMIT THEN wrk.due ELSE PURGE_LIMIT
        /\ Cardinality(wrk.batch) =
              IF wrk.due - Cardinality(wrk.first) <= PURGE_LIMIT
              THEN wrk.due - Cardinality(wrk.first) ELSE PURGE_LIMIT
        /\ \A r \in msgs_to_delete : r.delete_at > now \/ KeyOf(r) \in wrk.batch

\* A first drain of exactly 25 due entries, forgotten, and a second drain.
FullBatchThenEmpty ==
    /\ SecondDrain
    /\ wrk.due = PURGE_LIMIT
    /\ Cardinality(wrk.first) = PURGE_LIMIT
    /\ wrk.batch = {}

(***************************************************************************)
(* C14: add_user for a chat id that has a users row changes first_name,    *)
(* last_name and username only: is_admin, banned and start_time (the order *)
(* of get_all_users) of the row are as before, and no other row changes;   *)
(* add_user for an unknown chat id creates a row that is neither admin nor *)
(* banned.                                                                 *)
(***************************************************************************)
AddUserCalled(c) ==
    /\ hnd'.op = "add_user" /\ hnd'.chat = c
    /\ now' = now

AddUserKeepsFlagsAndJoinTime ==
    [][\A c \in Chats :
          AddUserCalled(c) =>
              /\ users'[c].present
              /\ \A d \in Chats \ {c} : users'[d] = users[d]
              /\ IF users[c].present
                 THEN /\ users'[c].is_admin = users[c].is_admin
                      /\ users'[c].banned = users[c].banned
                      /\ users'[c].start_time = users[c].start_time
                 ELSE /\ ~users'[c].is_admin
                      /\ ~users'[c].banned
      ]_vars

(***************************************************************************)
(* C15: for a chat id with no users row is_admin returns false and         *)
(* is_banned returns true; for a chat id with a row is_banned returns the  *)
(* stored banned flag, and is_admin returns the stored is_admin flag when  *)
(* the user is not banned and false when it is banned.                     *)
(***************************************************************************)
UnknownIsBannedAndNotAdmin ==
    \A c \in Chats :
        IF ~users[c].present
        THEN ~IsAdmin(users, c) /\ IsBanned(users, c)
        ELSE /\ IsBanned(users, c) = users[c].banned
             /\ IsAdmin(users, c) = IF users[c].banned THEN FALSE ELSE users[c].is_admin

\* The registry holds an admin, a banned user whose is_admin flag is set, and
\* no row for the third chat id.
RegistryOfAllKinds ==
    /\ ~users[300].present
    /\ \E c, d \in RegChats :
          /\ users[c].present /\ ~users[c].banned /\ users[c].is_admin
          /\ users[d].present /\ users[d].banned /\ users[d].is_admin

(***************************************************************************)
(* C16: no operation makes the is_admin flag of a banned user true:        *)
(* set_is_admin(chat_id, True) and accept_admin_request for a candidate    *)
(* who is banned at that moment leave the user's is_admin flag as it was.  *)
(***************************************************************************)
BannedIsNeverGranted ==
    [][\A c \in Chats :
          (users[c].present /\ users[c].banned) =>
              users'[c].is_admin = users[c].is_admin
      ]_vars

\* accept_admin_request has deleted the request of a candidate who is banned
\* and is not an admin.
BannedCandidateAccepted ==
    /\ hnd.op = "accept_admin_request" /\ hnd.err = None
    /\ hnd.chat \in Chats
    /\ users[hnd.chat].present /\ users[hnd.chat].banned /\ ~users[hnd.chat].is_admin
    /\ ~\E r \in admin_requests : r.id = hnd.id

(***************************************************************************)
(* C17: when a user sends /take_admin while no admin exists, the user's    *)
(* is_admin flag becomes true, no admin_requests row and no                *)
(* admin_request_confirmations row is created, and the greeting reply is   *)
(* scheduled for autodelete with the admin-request ttl.                    *)
(***************************************************************************)
TakeAdminCalled(c) ==
    /\ hnd'.op = "take_admin" /\ hnd'.chat = c
    /\ nextMsgId'[c] = nextMsgId[c] + 1

FirstTakeAdminPromotes ==
    [][\A c \in Chats :
          (TakeAdminCalled(c) /\ HebGetAdminChatIds(users) = {}) =>
              /\ users'[c].present /\ users'[c].is_admin
              /\ admin_requests' = admin_requests
              /\ admin_request_confirmations' = admin_request_confirmations
              /\ \E r \in msgs_to_delete' :
                    /\ r.chat_id = c /\ r.message_id = hnd'.id
                    /\ r.delete_at = now + ADMIN_MSG_TTL
      ]_vars

(***************************************************************************)
(* C18: when a registered user c who is neither banned nor an admin sends  *)
(* /take_admin while k >= 1 admins exist, the handler leaves exactly one   *)
(* new admin_requests row, whose candidate_chat_id is c, and exactly k     *)
(* confirmation rows for it, one per existing admin; when an admin then    *)
(* accepts, the request row and all its confirmation rows are deleted, c's *)
(* is_admin flag is true and c is sent the greeting.                       *)
(***************************************************************************)
RequestCreated ==
    hist'.serial = hist.serial + 1 =>
        LET admins == GetAdminChatIds(users)
            created == admin_requests' \ admin_requests
        IN  /\ admins # {}
            /\ Cardinality(created) = 1
            /\ admin_requests \subseteq admin_requests'
            /\ \A request \in created :
                  LET c == request.candidate_chat_id
                      rows == {r \in admin_request_confirmations' : r.request_id = request.id}
                  IN  /\ users[c].present /\ ~users[c].banned /\ ~users[c].is_admin
                      /\ users' = users
                      /\ Cardinality(rows) = Cardinality(admins)
                      /\ {r.existing_admin_chat_id : r \in rows} = admins
                      /\ rows \cap admin_request_confirmations = {}
                      /\ admin_request_confirmations \subseteq admin_request_confirmations'

RequestAccepted ==
    \A t \in Resolvers :
        LET candidate == R(t).request.candidate_chat_id
        IN  /\ ( /\ R(t).op = "accept_admin_request"
                 /\ R(t).pc = "delete" /\ R(t)'.pc # "delete" ) =>
                    /\ ~ \E r \in admin_requests' : r.id = R(t).id
                    /\ ~ \E r \in admin_request_confirmations' : r.request_id = R(t).id
                    /\ users'[candidate].is_admin
            /\ ( /\ R(t).op = "accept_admin_request"
                 /\ R(t).pc = "notify" /\ R(t)'.pc # "notify" ) =>
                    /\ R(t)'.pc \in {"edit", "done"}
                    /\ users[candidate].is_admin
                    /\ nextMsgId'[candidate] = nextMsgId[candidate] + 1
                    /\ \E r \in msgs_to_delete' \ msgs_to_delete :
                          /\ r.chat_id = candidate
                          /\ r.message_id = nextMsgId[candidate]
                          /\ r.delete_at = now + ADMIN_MSG_TTL

TakeAdminHandled(c) ==
    /\ hnd'.op = "take_admin" /\ hnd'.chat = c
    /\ nextMsgId'[c] = nextMsgId[c] + 1

Refusable(c) ==
    \/ ~users[c].present
    \/ users[c].banned
    \/ users[c].is_admin

RefusedTakeAdminChangesNothing ==
    [][\A c \in Chats :
          (TakeAdminHandled(c) /\ Refusable(c)) =>
              /\ admin_requests' = admin_requests
              /\ admin_request_confirmations' = admin_request_confirmations
              /\ prompts' = prompts
              /\ \A d \in Chats : users'[d] = users[d]
              /\ \A d \in Chats \ {c} : nextMsgId'[d] = nextMsgId[d]
              /\ \E r \in msgs_to_delete' \ msgs_to_delete :
                    r.chat_id = c /\ r.message_id = nextMsgId[c]
      ]_vars

\* A banned user with a row, and an admin, were each refused while a third
\* user is a non-banned admin.
BannedRequesterRefused ==
    /\ hnd.op = "take_admin" /\ hnd.pc = "idle"
    /\ users[hnd.chat].present /\ users[hnd.chat].banned
    /\ \E d \in Chats \ {hnd.chat} : IsAdmin(users, d)
    /\ nextMsgId[hnd.chat] > 1
    /\ admin_requests = {} /\ prompts = {}

(***************************************************************************)
(* C20: an admin request is resolved (its rows deleted and, on accept, the *)
(* candidate promoted) only by the callback of a user who is a non-banned  *)
(* admin when the resolution runs; the press of a user who has dropped     *)
(* admin or was banned since the prompt was sent resolves nothing.         *)
(***************************************************************************)
OnlyAdminsResolve ==
    [][\A t \in Resolvers :
          (R(t).pc = "delete" /\ R(t)'.pc # "delete") =>
              \/ IsAdmin(users, R(t).chat)
              \/ /\ users' = users
                 /\ admin_requests' = admin_requests
                 /\ admin_request_confirmations' = admin_request_confirmations
      ]_vars

(***************************************************************************)
(* C21: a callback query whose payload has a 'type' the handler does not   *)
(* handle is ignored: the handler changes no table, sends, edits and       *)
(* deletes no message, and returns without an exception.                   *)
(***************************************************************************)
UnknownTypeHandled ==
    /\ HndFree
    /\ hnd' # hnd
    /\ hnd'.op \in CallbackTypes \ {"cancel", "send"}

UnknownCallbackIsIgnored ==
    [][ UnknownTypeHandled =>
          /\ hnd'.pc = "done" /\ hnd'.err = None
          /\ <<users, admin_requests, admin_request_confirmations, msgs_to_delete,
               send_tasks, unconfirmed_texts>>' =
             <<users, admin_requests, admin_request_confirmations, msgs_to_delete,
               send_tasks, unconfirmed_texts>>
          /\ prompts' = prompts
          /\ nextMsgId' = nextMsgId ]_vars

\* A query of an unhandled type was handled while a draft was waiting for its
\* confirmation.
UnknownCallbackWithDraftPending ==
    /\ hnd.pc = "done" /\ hnd.op \in CallbackTypes \ {"cancel", "send"}
    /\ \E r \in unconfirmed_texts : r.id = hnd.id
    /\ \E p \in prompts : p.id = hnd.id /\ p.buttons

(***************************************************************************)
(* C22: the user that '/ban N' or '/unban N' names in its confirmation     *)
(* prompt, and whose banned flag the confirm click changes, is the user at *)
(* position N of the list last rendered to that admin, whatever happened   *)
(* to the users table since the list was rendered; the click sets the flag *)
(* of the chat id the prompt carries.                                      *)
(***************************************************************************)
BanCommandPrompted(c, kind, number) ==
    /\ hnd'.op = kind /\ hnd'.chat = c /\ hnd'.id = number
    /\ nextMsgId'[c] = nextMsgId[c] + 1
    /\ prompts' # prompts

BanNamesRenderedPosition ==
    [][ \A c \in Chats, kind \in {"ban", "unban"}, number \in 1..3 :
          (BanCommandPrompted(c, kind, number) /\ number <= Len(hist[c][kind])) =>
              \A p \in prompts' \ prompts : p.id = hist[c][kind][number] ]_vars

(***************************************************************************)
(* C23: the send-task job attempts tasks oldest first.  A run loads at     *)
(* most 20 tasks, in increasing id order, and they are the smallest ids    *)
(* queued; when it attempts a task, every queued task with a smaller id    *)
(* was attempted earlier in the same run.  (A row gets an id larger than   *)
(* every id queued at that time, so among queued rows a smaller id means   *)
(* an earlier save.)                                                       *)
(***************************************************************************)
BatchIsOldestInOrder ==
    (sjob.pc = "idle" /\ sjob'.pc = "send") =>
        LET tasks == sjob'.tasks
        IN  /\ Len(tasks) <= SEND_TASKS_LIMIT
            /\ \A k \in 1..Len(tasks) : tasks[k] \in send_tasks
            /\ \A k, l \in 1..Len(tasks) : k < l => tasks[k].id < tasks[l].id
            /\ \A r \in send_tasks :
                  r.id \notin TaskIds(tasks) =>
                      /\ Len(tasks) = SEND_TASKS_LIMIT
                      /\ \A k \in 1..Len(tasks) : tasks[k].id < r.id

AttemptIsOldestUnattempted ==
    (sjob.pc = "send" /\ sjob.i <= Len(sjob.tasks) /\ sjob' # sjob) =>
        \A r \in send_tasks :
            r.id < sjob.tasks[sjob.i].id =>
                \E k \in 1..(sjob.i - 1) : sjob.tasks[k].id = r.id

SavedAfterQueued ==
    \A r \in send_tasks' \ send_tasks : \A q \in send_tasks : q.id < r.id

TasksAttemptedOldestFirst ==
    [][BatchIsOldestInOrder /\ AttemptIsOldestUnattempted /\ SavedAfterQueued]_vars

\* A run with a full batch is at its last task while rows saved during the run
\* and rows beyond the batch are queued.
FullBatchWithNewerRowsQueued ==
    /\ sjob.pc = "send" /\ sjob.i = SEND_TASKS_LIMIT
    /\ Len(sjob.tasks) = SEND_TASKS_LIMIT
    /\ Cardinality(send_tasks) > QueuedAtStart

(***************************************************************************)
(* C24: no send_tasks row leaves the queue before bot.send_message was     *)
(* called for it.  A run of the send-task job that stops between load and  *)
(* dismiss leaves every task of its batch queued, and the next load        *)
(* returns them again; a run of the purge job that stops between           *)
(* get_scheduled and forget leaves every entry it drained in               *)
(* msgs_to_delete.                                                         *)
(***************************************************************************)
SendRunStopped == sjob.pc = "send" /\ sjob.i <= Len(sjob.tasks) /\ sjob'.pc = "idle"
PurgeRunStopped == pjob.pc = "delete" /\ pjob.todo # {} /\ pjob'.pc = "idle"

RowsLeaveOnlyAfterAttempt ==
    /\ (send_tasks' # send_tasks) =>
          /\ sjob.pc = "send" /\ sjob.i > Len(sjob.tasks)
          /\ send_tasks \ send_tasks' \subseteq {sjob.tasks[k] : k \in 1..Len(sjob.tasks)}
    /\ SendRunStopped =>
          /\ send_tasks' = send_tasks
          /\ \A k \in 1..Len(sjob.tasks) :
                /\ sjob.tasks[k] \in send_tasks'
                /\ \E l \in 1..Len(LoadTasks(send_tasks', SEND_TASKS_LIMIT)) :
                      LoadTasks(send_tasks', SEND_TASKS_LIMIT)[l] = sjob.tasks[k]
    /\ PurgeRunStopped =>
          /\ msgs_to_delete' = msgs_to_delete
          /\ pjob.msgs \subseteq {KeyOf(r) : r \in msgs_to_delete'}
    /\ ({KeyOf(r) : r \in msgs_to_delete} \ {KeyOf(r) : r \in msgs_to_delete'} # {}) =>
          /\ pjob.pc = "delete" /\ pjob.todo = {}
          /\ {KeyOf(r) : r \in msgs_to_delete} \ {KeyOf(r) : r \in msgs_to_delete'}
                \subseteq pjob.msgs

StoppedRunsLoseNothing == [][RowsLeaveOnlyAfterAttempt]_vars

\* A send run has stopped at its second task and a purge run at a delete call,
\* each with its batch still in its table.
BothJobsStoppedMidBatch ==
    /\ sjob.pc = "idle" /\ Cardinality(send_tasks) = 3
    /\ nextMsgId[100] = 2
    /\ pjob.pc = "idle" /\ pjob.outcome = "other"
    /\ Cardinality(msgs_to_delete) = 3

(***************************************************************************)
(* C25: whatever 'send' and 'cancel' callbacks arrive for a draft, in any  *)
(* order and any number, the draft's text is written to send_tasks at most *)
(* once (one row per recipient), and only by a 'send' that finds the       *)
(* draft's row in unconfirmed_texts: never after a 'cancel' or an earlier  *)
(* 'send' deleted it.                                                      *)
(***************************************************************************)
IsBroadcastRow(r) == r.text.kind = "text"

FannedOutAtMostOnce ==
    \A r, q \in send_tasks :
        (IsBroadcastRow(r) /\ r.text = q.text /\ r.chat_id = q.chat_id) => r = q

FanOutOnlyOfLiveDraft ==
    \A r \in send_tasks' \ send_tasks :
        IsBroadcastRow(r) => \E d \in unconfirmed_texts : d.text = r.text

DraftGoneStaysGone ==
    \A d \in unconfirmed_texts' :
        (\E r \in send_tasks : r.text = d.text) => d \in unconfirmed_texts

AtMostOneResolutionOfADraft ==
    /\ []FannedOutAtMostOnce
    /\ [][FanOutOnlyOfLiveDraft /\ DraftGoneStaysGone]_vars

\* A second 'send' for a draft was handled after the first one fanned the draft
\* out: it found no row and answered with the notice.
SecondSendAfterFanOut ==
    /\ hnd.pc = "done" /\ hnd.op = "send" /\ hnd.info = NoInfo
    /\ \E r \in send_tasks : IsBroadcastRow(r)
    /\ \E p \in prompts : p.id = hnd.id /\ p.chat = hnd.chat /\ ~p.buttons

(***************************************************************************)
(* C26: a draft goes from Draft to AwaitingConfirmation to Accepted or     *)
(* Cancelled and no further.  Its row is deleted only by a 'send' or a     *)
(* 'cancel' that comes from its own prompt while the prompt still shows    *)
(* its buttons, the row then holds the prompt's message id, and a row id   *)
(* that a prompt was sent for is never given to a row again.               *)
(***************************************************************************)
RowCreated(d) == ~ \E e \in unconfirmed_texts : e.id = d.id
RowDeleted(d) == ~ \E e \in unconfirmed_texts' : e.id = d.id

DraftResolvedOnceViaItsPrompt ==
    /\ \A d \in unconfirmed_texts' :
          RowCreated(d) => ~ \E p \in prompts : p.kind = "text" /\ p.id = d.id
    /\ \A d \in unconfirmed_texts :
          RowDeleted(d) =>
              /\ d.confirmation_message_id # 0
              /\ \E p \in prompts :
                    /\ p.kind = "text" /\ p.id = d.id /\ p.buttons
                    /\ p.chat = hnd'.chat /\ p.message_id = d.confirmation_message_id
              /\ \A p \in prompts : (p.kind = "text" /\ p.id = d.id) => p.buttons

DraftLifecycleIsLinear == [][DraftResolvedOnceViaItsPrompt]_vars

(***************************************************************************)
(* C27: send_tasks rows are created from a draft only when the user who    *)
(* pressed 'send' is an admin at that time, and a draft is created only    *)
(* from a text of a user who is an admin when the text arrives.            *)
(***************************************************************************)
FanOutByAdmin ==
    \A r \in send_tasks' \ send_tasks :
        IsBroadcastRow(r) => HebIsAdmin(users, hnd.chat)

DraftByAdmin ==
    \A d \in unconfirmed_texts' :
        RowCreated(d) => \A p \in prompts' \ prompts : HebIsAdmin(users, p.chat)

OnlyAdminsBroadcast == [][FanOutByAdmin /\ DraftByAdmin]_vars

(***************************************************************************)
(* C28: the purge job calls delete_message only for entries that are due,  *)
(* and forgets only such entries: a message scheduled at time s with ttl t *)
(* has a row with delete_at = s + t, and the row is in no batch of the     *)
(* purge job and is not removed from msgs_to_delete while now < s + t.     *)
(***************************************************************************)
BatchIsDue ==
    \A msg \in pjob.msgs :
        \E r \in msgs_to_delete : KeyOf(r) = msg /\ r.delete_at <= now

ScheduledThenForgottenWhenDue ==
    /\ \A r \in msgs_to_delete' \ msgs_to_delete :
          \E ttl \in Ttls : r.delete_at = now + ttl
    /\ \A r \in msgs_to_delete \ msgs_to_delete' :
          r.delete_at <= now /\ KeyOf(r) \in pjob.msgs

PurgeTouchesOnlyDueEntries ==
    /\ []BatchIsDue
    /\ [][ScheduledThenForgottenWhenDue]_vars

\* The purge job has made a delete call of its batch while a row that is not
\* yet due waits in the table.
PurgingWithEntryNotDue ==
    /\ pjob.pc = "delete" /\ pjob.todo # pjob.msgs
    /\ \E r \in msgs_to_delete : r.delete_at > now

(***************************************************************************)
(* C29: under fair scheduling of the purge job, every entry of             *)
(* msgs_to_delete that is due and whose own delete_message call succeeds   *)
(* or fails with an expected error is in the end forgotten, also when the  *)
(* call for another due entry fails on every run with another error.       *)
(***************************************************************************)
RemovableEntriesAreForgotten ==
    \A r \in PurgeRows :
        (r \in msgs_to_delete /\ r.delete_at <= now /\ KeyOf(r) \notin Unremovable)
            ~> (r \notin msgs_to_delete)

(***************************************************************************)
(* C30: every message the bot sends to a chat gets a msgs_to_delete row:   *)
(* the replies to commands, the /start greeting among them, the            *)
(* confirmation prompts and the messages of the send-task job.             *)
(***************************************************************************)
EverySentMessageIsScheduled ==
    \A c \in Chats : \A message_id \in 1..(nextMsgId[c] - 1) :
        HasKey(msgs_to_delete, c, message_id)

(***************************************************************************)
(* C31: the store lock is never held by a thread while a call of the       *)
(* messaging API made by that thread is in progress, so that no storage    *)
(* operation of another thread waits for the messaging API.                *)
(***************************************************************************)
LockFreeDuringMessaging ==
    \A t \in Threads : Pos(t) = "call" => lockOwner # t

(***************************************************************************)
(* C32: in every reachable state each admin_request_confirmations row      *)
(* names an admin_requests row that exists; no confirmation row is left    *)
(* behind for a request that was resolved, whatever the order of the       *)
(* candidate's take_admin and the admin's press of a button.               *)
(***************************************************************************)
ConfirmationsNameLiveRequests ==
    \A r \in admin_request_confirmations :
        \E q \in admin_requests : q.id = r.request_id

\* A press of a prompt whose take_admin ended before it saved the confirmation
\* rows has cleared that request, while the confirmation rows of another
\* request are in the table.
ResolvedWithOtherRequestPending ==
    /\ Len(hist.won) > 0
    /\ hnd.pc = "notify" /\ Len(hnd.confirmations) = 0
    /\ admin_request_confirmations # {}

(***************************************************************************)
(* C33: a user's is_admin flag is set without an accepted request only     *)
(* when no non-banned admin exists at the moment the flag is written; of   *)
(* two users who send /take_admin while no admin exists, at most one is    *)
(* promoted by the command.                                                *)
(***************************************************************************)
PromotionWritten(c) == users[c].present /\ ~users[c].is_admin /\ users'[c].is_admin

ByAcceptedRequest(c) ==
    /\ hnd.op = "accept_admin_request" /\ hnd.pc = "delete"
    /\ hnd.request.candidate_chat_id = c

NonBannedAdminExists ==
    \E a \in Chats : users[a].present /\ users[a].is_admin /\ ~users[a].banned

AutoPromotionOnlyWithoutAdmins ==
    [][\A c \in Chats :
          (PromotionWritten(c) /\ ~ByAcceptedRequest(c)) => ~NonBannedAdminExists
      ]_vars

\* Chat 100 was promoted by its /take_admin, and the /take_admin of chat 200
\* that followed created a request instead.
SecondClaimantMustRequest ==
    /\ users[100].is_admin /\ ~users[100].banned
    /\ Len(hist.won) = 0
    /\ hnd.op = "take_admin" /\ hnd.pc = "prompt" /\ hnd.chat = 200

(***************************************************************************)
(* C34: after a user's /drop_admin has been handled, is_admin of that user *)
(* is false and the user is not among get_admin_chat_ids() as long as the  *)
(* user is not promoted again, also when the user was banned at the time   *)
(* of the command and is unbanned later.  (No handler of this              *)
(* specification promotes a user.)                                         *)
(***************************************************************************)
DroppedAdminStaysDropped ==
    \A c \in Chats :
        hist[c] => /\ ~IsAdmin(users, c)
                   /\ c \notin GetAdminChatIds(users)

(***************************************************************************)
(* C35: whenever the admin greeting is sent to a candidate because the     *)
(* candidate's request was accepted, the candidate's is_admin flag is true *)
(* in the store; a candidate banned between the request and the accept is  *)
(* neither promoted nor greeted.                                           *)
(***************************************************************************)
GreetingSent ==
    /\ hnd.op = "accept_admin_request" /\ hnd.pc = "notify"
    /\ nextMsgId'[hnd.request.candidate_chat_id] = nextMsgId[hnd.request.candidate_chat_id] + 1

GreetedCandidateIsAdmin ==
    [][GreetingSent =>
          /\ users[hnd.request.candidate_chat_id].present
          /\ users[hnd.request.candidate_chat_id].is_admin
      ]_vars

(***************************************************************************)
(* C36: an admin_requests id that was deleted is never given to a later    *)
(* request, so the id in the buttons of a prompt always names the request  *)
(* the prompt was sent for.  (hist.serial counts the requests created; an  *)
(* id is new when it is larger than every id given before.)                *)
(***************************************************************************)
RequestIdsAreNeverReused ==
    [][\A r \in admin_requests' \ admin_requests : r.id > hist.serial]_vars

(***************************************************************************)
(* C37: every commit on the shared connection is executed by a thread that *)
(* holds the store lock, in every storage variant; no commit runs after    *)
(* the lock of its scope was released.                                     *)
(***************************************************************************)
Committing(t) == scope[t].pc = "commit" \/ Pos(t) = "commit_after"

CommitsHoldTheLock ==
    \A t \in Threads : Committing(t) => lockOwner = t

(***************************************************************************)
(* C38: the self-notification task of a confirmed broadcast is dispatched  *)
(* only after send_message was called for every recipient task of that     *)
(* broadcast, however the runs of the send-task job fall between the store *)
(* operations of the confirm handler.                                      *)
(***************************************************************************)
SelfNotificationDispatched ==
    /\ sjob.pc = "send" /\ sjob.i <= Len(sjob.tasks)
    /\ sjob.tasks[sjob.i].text.kind = "sent"
    /\ sjob' # sjob

RecipientsAttempted ==
    \A c \in HebGetAllChatIds(users) :
        \E task \in hist : task.chat_id = c /\ task.text = Text("Hello")

SelfNotificationAfterRecipients ==
    [][SelfNotificationDispatched => RecipientsAttempted]_vars

\* The job has called send_message for the self-notification, in a run that
\* began after the recipient tasks were dismissed.
SelfNotificationInLaterRun ==
    /\ \E task \in hist : task.text.kind = "sent"
    /\ \E task \in hist : task.text = Text("Hello") /\ task \notin send_tasks
    /\ \A k \in 1..Len(sjob.tasks) : sjob.tasks[k].text.kind = "sent"
    /\ sjob.pc = "send"

(***************************************************************************)
(* C39: for every non-negative n, plural_ru(n, f1, f234, fmany) is fmany   *)
(* when n mod 100 is in 11..19; otherwise f1 when n mod 10 = 1; otherwise  *)
(* f234 when n mod 10 is in 2..4; otherwise fmany.                         *)
(***************************************************************************)
PluralFormIsAsStated ==
    hnd.pc = "done" =>
        hnd.op = IF (hnd.id % 100) \in 11..19 THEN "form_many"
                 ELSE IF hnd.id % 10 = 1 THEN "form_1"
                 ELSE IF (hnd.id % 10) \in 2..4 THEN "form_234"
                 ELSE "form_many"

\* plural_ru(112, ...) has returned: 112 ends in 2 and 112 mod 100 is 12
PluralOfATeenPastHundred ==
    hnd.pc = "done" /\ hnd.id = 112 /\ hnd.op = "form_many"

====
